---- MODULE Spec2Model ----
(***************************************************************************)
(* Model of the finance backend: the transaction store (SQLite table       *)
(* behind TransactionRepository), the category classifier (MLEngine and    *)
(* the rule table) and the FinanceService operations that tie them         *)
(* together, including CSV import and export.                              *)
(*                                                                         *)
(* Representation.  A Python str is a sequence of one-character strings,   *)
(* so that lower-casing, substring tests and CSV quoting are computed and  *)
(* not assumed.  Python None in a str position is NoneStr.  A float amount *)
(* is an integer number of cents.  A confidence is an exact fraction       *)
(* <<numerator, denominator>>.  A datetime is [year, day, hour], day being  *)
(* the day of the year.  Category and TransactionType members are named by *)
(* their values.                                                           *)
(* The notes, tags, is_recurring, created_at and updated_at columns take   *)
(* part in none of the modelled decisions and keep their defaults.         *)
(***************************************************************************)
EXTENDS Integers, Sequences, FiniteSets, TLC

\* Largest row id the model lets the store hand out.
MaxId == 3

----------------------------------------------------------------------------
(* Python values *)

\* None where a str is expected; no str has an element longer than one character.
NoneStr == <<"None">>

\* None where an enum member or a result is expected.
None == "None"

Range(s) == {s[i] : i \in DOMAIN s}

Min(S) == CHOOSE x \in S : \A y \in S : x <= y

Max(S) == CHOOSE x \in S : \A y \in S : x >= y

\* Exact comparison of fractions with positive denominators.
RatLeq(a, b) == a[1] * b[2] <= b[1] * a[2]

RatEq(a, b) == a[1] * b[2] = b[1] * a[2]

\* Python min(a, b)
RatMin(a, b) == IF RatLeq(b, a) /\ ~RatEq(a, b) THEN b ELSE a

\* The outcome of a call that may raise.
Ok(v) == [exc |-> None, val |-> v]

Raise(e) == [exc |-> e, val |-> None]

----------------------------------------------------------------------------
(* models.py *)

TransactionType == {"expense", "income", "transfer"}

\* Category members in declaration order, named by value.
CategoryOrder ==
  << "Groceries", "Dining & Restaurants", "Transportation", "Utilities",
     "Rent/Mortgage", "Entertainment", "Shopping", "Healthcare", "Education",
     "Travel", "Insurance", "Other Expense",
     "Salary", "Freelance", "Investment Income", "Other Income" >>

Category == Range(CategoryOrder)

\* Category.value as text.
CategoryChars ==
  ("Groceries" :> <<"G","r","o","c","e","r","i","e","s">>)
  @@ ("Dining & Restaurants" :> <<"D","i","n","i","n","g"," ","&"," ","R","e","s","t","a","u","r","a","n","t","s">>)
  @@ ("Transportation" :> <<"T","r","a","n","s","p","o","r","t","a","t","i","o","n">>)
  @@ ("Utilities" :> <<"U","t","i","l","i","t","i","e","s">>)
  @@ ("Rent/Mortgage" :> <<"R","e","n","t","/","M","o","r","t","g","a","g","e">>)
  @@ ("Entertainment" :> <<"E","n","t","e","r","t","a","i","n","m","e","n","t">>)
  @@ ("Shopping" :> <<"S","h","o","p","p","i","n","g">>)
  @@ ("Healthcare" :> <<"H","e","a","l","t","h","c","a","r","e">>)
  @@ ("Education" :> <<"E","d","u","c","a","t","i","o","n">>)
  @@ ("Travel" :> <<"T","r","a","v","e","l">>)
  @@ ("Insurance" :> <<"I","n","s","u","r","a","n","c","e">>)
  @@ ("Other Expense" :> <<"O","t","h","e","r"," ","E","x","p","e","n","s","e">>)
  @@ ("Salary" :> <<"S","a","l","a","r","y">>)
  @@ ("Freelance" :> <<"F","r","e","e","l","a","n","c","e">>)
  @@ ("Investment Income" :> <<"I","n","v","e","s","t","m","e","n","t"," ","I","n","c","o","m","e">>)
  @@ ("Other Income" :> <<"O","t","h","e","r"," ","I","n","c","o","m","e">>)

----------------------------------------------------------------------------
(* str operations *)

LowerOf ==
  ("A" :> "a") @@ ("B" :> "b") @@ ("C" :> "c") @@ ("D" :> "d") @@ ("E" :> "e") @@ ("F" :> "f")
  @@ ("G" :> "g") @@ ("H" :> "h") @@ ("I" :> "i") @@ ("J" :> "j") @@ ("K" :> "k") @@ ("L" :> "l")
  @@ ("M" :> "m") @@ ("N" :> "n") @@ ("O" :> "o") @@ ("P" :> "p") @@ ("Q" :> "q") @@ ("R" :> "r")
  @@ ("S" :> "s") @@ ("T" :> "t") @@ ("U" :> "u") @@ ("V" :> "v") @@ ("W" :> "w") @@ ("X" :> "x")
  @@ ("Y" :> "y") @@ ("Z" :> "z")

\* str.lower()
Lower(s) == [i \in 1..Len(s) |-> IF s[i] \in DOMAIN LowerOf THEN LowerOf[s[i]] ELSE s[i]]

\* Python `kw in s` on str
Contains(kw, s) ==
  \E i \in 1..(Len(s) - Len(kw) + 1) : SubSeq(s, i, i + Len(kw) - 1) = kw

CountOf(seq, x) == Cardinality({i \in DOMAIN seq : seq[i] = x})

FirstIndex(seq, x) == Min({i \in DOMAIN seq : seq[i] = x})

\* The key that is first to reach the greatest count while seq is counted
\* from its start.
MostCommon_FirstToReach(seq) ==
  LET most     == Max({CountOf(seq, x) : x \in Range(seq)})
      best     == {x \in Range(seq) : CountOf(seq, x) = most}
      reach(x) == Min({i \in DOMAIN seq : CountOf(SubSeq(seq, 1, i), x) = most})
  IN  CHOOSE x \in best : \A y \in best : reach(x) <= reach(y)

\* Counter(seq).most_common(1)[0][0]: the greatest count, the key inserted
\* first among equals (max() keeps the first maximal item it meets).
MostCommon(seq) ==
  LET best == {x \in Range(seq) : \A y \in Range(seq) : CountOf(seq, y) <= CountOf(seq, x)}
  IN  CHOOSE x \in best : \A y \in best : FirstIndex(seq, x) <= FirstIndex(seq, y)

----------------------------------------------------------------------------
(* The merchant names the calls of the model use *)

M_Starbucks == <<"S","t","a","r","b","u","c","k","s"," ","D","o","w","n","t","o","w","n">>

M_Amazon == <<"A","m","a","z","o","n"," ","P","r","i","m","e">>

M_Fuel == <<"B","P"," ","G","a","s"," ","F","u","e","l"," ","T","a","x","i">>

M_Joe == <<"J","o",",","\"","e">>

M_STARBUCKS == <<"S","T","A","R","B","U","C","K","S"," ","D","O","W","N","T","O","W","N">>

\* A name with one keyword of an earlier category and two of a later one.
M_CafeMall == <<"C","a","f","e"," ","M","a","l","l"," ","S","t","o","r","e">>

Merchants == {M_Starbucks, M_Amazon, M_Fuel, M_Joe, M_STARBUCKS}

----------------------------------------------------------------------------
(* ml/rules.py *)

RULES ==
  <<
    [keyword |-> <<"s","t","a","r","b","u","c","k","s">>, category |-> "Dining & Restaurants"],
    [keyword |-> <<"u","b","e","r">>, category |-> "Transportation"],
    [keyword |-> <<"o","l","a">>, category |-> "Transportation"],
    [keyword |-> <<"z","o","m","a","t","o">>, category |-> "Dining & Restaurants"],
    [keyword |-> <<"s","w","i","g","g","y">>, category |-> "Dining & Restaurants"],
    [keyword |-> <<"a","m","a","z","o","n">>, category |-> "Shopping"],
    [keyword |-> <<"f","l","i","p","k","a","r","t">>, category |-> "Shopping"],
    [keyword |-> <<"n","e","t","f","l","i","x">>, category |-> "Entertainment"],
    [keyword |-> <<"r","e","n","t">>, category |-> "Rent/Mortgage"],
    [keyword |-> <<"s","a","l","a","r","y">>, category |-> "Salary"],
    [keyword |-> <<"b","o","n","u","s">>, category |-> "Salary"]
  >>

\* rule_based_category for a str merchant: the first rule, in table order,
\* whose keyword occurs in the lower-cased merchant; None when there is none.
RuleLookup(merchant) ==
  LET m == Lower(merchant)
      hits == {i \in DOMAIN RULES : Contains(RULES[i].keyword, m)}
  IN  IF hits = {} THEN None ELSE RULES[Min(hits)].category

\* RuleLookup tabulated for the merchant names of the model.
RuleTable == [m \in Merchants |-> RuleLookup(m)]

rule_based_category(merchant) ==
  IF merchant \in Merchants THEN RuleTable[merchant] ELSE RuleLookup(merchant)

----------------------------------------------------------------------------
(* ml_engine.py: classifier *)

category_keywords ==
  <<
    [category |-> "Groceries", keywords |-> <<
        <<"g","r","o","c","e","r","y">>,
        <<"s","u","p","e","r","m","a","r","k","e","t">>,
        <<"w","a","l","m","a","r","t">>,
        <<"t","a","r","g","e","t">>,
        <<"w","h","o","l","e"," ","f","o","o","d","s">>,
        <<"t","r","a","d","e","r"," ","j","o","e">>,
        <<"s","a","f","e","w","a","y">>,
        <<"k","r","o","g","e","r">>,
        <<"a","l","b","e","r","t","s","o","n","s">>,
        <<"m","a","r","k","e","t">> >>],
    [category |-> "Dining & Restaurants", keywords |-> <<
        <<"r","e","s","t","a","u","r","a","n","t">>,
        <<"c","a","f","e">>,
        <<"c","o","f","f","e","e">>,
        <<"s","t","a","r","b","u","c","k","s">>,
        <<"m","c","d","o","n","a","l","d">>,
        <<"c","h","i","p","o","t","l","e">>,
        <<"p","i","z","z","a">>,
        <<"s","u","b","w","a","y">>,
        <<"t","a","c","o"," ","b","e","l","l">>,
        <<"b","u","r","g","e","r">>,
        <<"k","i","t","c","h","e","n">>,
        <<"g","r","i","l","l">>,
        <<"d","i","n","e","r">>,
        <<"b","i","s","t","r","o">> >>],
    [category |-> "Transportation", keywords |-> <<
        <<"u","b","e","r">>,
        <<"l","y","f","t">>,
        <<"g","a","s">>,
        <<"f","u","e","l">>,
        <<"p","a","r","k","i","n","g">>,
        <<"t","r","a","n","s","i","t">>,
        <<"m","e","t","r","o">>,
        <<"t","a","x","i">>,
        <<"s","h","e","l","l">>,
        <<"c","h","e","v","r","o","n">>,
        <<"e","x","x","o","n">>,
        <<"b","p">> >>],
    [category |-> "Utilities", keywords |-> <<
        <<"e","l","e","c","t","r","i","c">>,
        <<"w","a","t","e","r">>,
        <<"i","n","t","e","r","n","e","t">>,
        <<"p","h","o","n","e">>,
        <<"g","a","s"," ","b","i","l","l">>,
        <<"u","t","i","l","i","t","y">>,
        <<"c","o","m","c","a","s","t">>,
        <<"v","e","r","i","z","o","n">>,
        <<"a","t","t">>,
        <<"s","p","r","i","n","t">> >>],
    [category |-> "Rent/Mortgage", keywords |-> <<
        <<"r","e","n","t">>,
        <<"m","o","r","t","g","a","g","e">>,
        <<"l","e","a","s","e">>,
        <<"p","r","o","p","e","r","t","y">>,
        <<"l","a","n","d","l","o","r","d">> >>],
    [category |-> "Entertainment", keywords |-> <<
        <<"n","e","t","f","l","i","x">>,
        <<"s","p","o","t","i","f","y">>,
        <<"m","o","v","i","e">>,
        <<"t","h","e","a","t","e","r">>,
        <<"c","o","n","c","e","r","t">>,
        <<"g","a","m","e">>,
        <<"s","t","e","a","m">>,
        <<"x","b","o","x">>,
        <<"p","l","a","y","s","t","a","t","i","o","n">>,
        <<"h","u","l","u">>,
        <<"d","i","s","n","e","y">>,
        <<"a","m","a","z","o","n"," ","p","r","i","m","e">>,
        <<"a","p","p","l","e"," ","m","u","s","i","c">> >>],
    [category |-> "Shopping", keywords |-> <<
        <<"a","m","a","z","o","n">>,
        <<"e","b","a","y">>,
        <<"m","a","l","l">>,
        <<"s","t","o","r","e">>,
        <<"s","h","o","p">>,
        <<"c","l","o","t","h","i","n","g">>,
        <<"f","a","s","h","i","o","n">>,
        <<"r","e","t","a","i","l">>,
        <<"b","e","s","t","b","u","y">>,
        <<"m","a","c","y">> >>],
    [category |-> "Healthcare", keywords |-> <<
        <<"p","h","a","r","m","a","c","y">>,
        <<"d","o","c","t","o","r">>,
        <<"h","o","s","p","i","t","a","l">>,
        <<"m","e","d","i","c","a","l">>,
        <<"c","v","s">>,
        <<"w","a","l","g","r","e","e","n","s">>,
        <<"h","e","a","l","t","h">>,
        <<"c","l","i","n","i","c">>,
        <<"d","e","n","t","a","l">> >>],
    [category |-> "Education", keywords |-> <<
        <<"s","c","h","o","o","l">>,
        <<"u","n","i","v","e","r","s","i","t","y">>,
        <<"c","o","l","l","e","g","e">>,
        <<"t","u","i","t","i","o","n">>,
        <<"c","o","u","r","s","e">>,
        <<"t","e","x","t","b","o","o","k">>,
        <<"u","d","e","m","y">>,
        <<"c","o","u","r","s","e","r","a">> >>],
    [category |-> "Insurance", keywords |-> <<
        <<"i","n","s","u","r","a","n","c","e">>,
        <<"p","o","l","i","c","y">>,
        <<"p","r","e","m","i","u","m">>,
        <<"g","e","i","c","o">>,
        <<"s","t","a","t","e"," ","f","a","r","m">> >>],
    [category |-> "Salary", keywords |-> <<
        <<"s","a","l","a","r","y">>,
        <<"p","a","y","r","o","l","l">>,
        <<"p","a","y","c","h","e","c","k">>,
        <<"w","a","g","e","s">>,
        <<"i","n","c","o","m","e">>,
        <<"d","i","r","e","c","t"," ","d","e","p","o","s","i","t">> >>],
    [category |-> "Freelance", keywords |-> <<
        <<"f","r","e","e","l","a","n","c","e">>,
        <<"c","o","n","t","r","a","c","t">>,
        <<"c","o","n","s","u","l","t","i","n","g">>,
        <<"c","o","m","m","i","s","s","i","o","n">>,
        <<"u","p","w","o","r","k">>,
        <<"f","i","v","e","r","r">> >>]
  >>

RECURSIVE FlattenKeywords(_)
FlattenKeywords(i) ==
  IF i > Len(category_keywords) THEN << >>
  ELSE [j \in 1..Len(category_keywords[i].keywords) |->
          [category |-> category_keywords[i].category,
           keyword  |-> category_keywords[i].keywords[j]]]
       \o FlattenKeywords(i + 1)

\* The (category, keyword) pairs in the order the two nested loops visit them.
KeywordPairs == FlattenKeywords(1)

\* The credits of the scoring loop with the categories visited last to
\* first.
KeywordHits_LastFirst(merchant_lower) ==
  LET hit == SelectSeq(KeywordPairs, LAMBDA p : Contains(p.keyword, merchant_lower))
  IN  [i \in 1..Len(hit) |-> hit[Len(hit) + 1 - i].category]

\* The categories credited by the scoring loop, one entry per matching
\* keyword, in visiting order: scores[c] is the number of entries equal to c
\* and the Counter's insertion order is the order of first entries.
KeywordHits(merchant_lower) ==
  LET hit == SelectSeq(KeywordPairs, LAMBDA p : Contains(p.keyword, merchant_lower))
  IN  [i \in 1..Len(hit) |-> hit[i].category]

\* KeywordHits tabulated for the merchant names of the model.
KeywordTable == [m \in Merchants |-> KeywordHits(Lower(m))]

\* The scores Counter after the scoring loop, as the list of its credits.
KeywordScores(merchant) ==
  IF merchant \in Merchants THEN KeywordTable[merchant] ELSE KeywordHits(Lower(merchant))

HistoryConfidence == <<95, 100>>

DefaultConfidence == <<3, 10>>

\* The confidence without the cap at 1.0.
KeywordConfidence_NoClamp(score) == <<score, 3>>

KeywordConfidence(score) == RatMin(<<score, 3>>, <<1, 1>>)

\* predict_category trying the keywords before the merchant history.
MLEngine_predict_category_KeywordsFirst(merchant_history, merchant, amount) ==
  IF merchant = NoneStr THEN Raise("AttributeError")
  ELSE LET scores == KeywordScores(merchant)
       IN  IF scores # << >>
           THEN Ok([category   |-> MostCommon(scores),
                    confidence |-> KeywordConfidence(CountOf(scores, MostCommon(scores)))])
           ELSE IF merchant \in DOMAIN merchant_history
           THEN Ok([category |-> merchant_history[merchant], confidence |-> HistoryConfidence])
           ELSE IF amount > 0
           THEN Ok([category |-> "Other Income", confidence |-> DefaultConfidence])
           ELSE Ok([category |-> "Other Expense", confidence |-> DefaultConfidence])

\* MLEngine.predict_category
MLEngine_predict_category(merchant_history, merchant, amount) ==
  IF merchant = NoneStr THEN Raise("AttributeError")
  ELSE IF merchant \in DOMAIN merchant_history
  THEN Ok([category |-> merchant_history[merchant], confidence |-> HistoryConfidence])
  ELSE LET scores == KeywordScores(merchant)
       IN  IF scores # << >>
           THEN LET best_category == MostCommon(scores)
                IN  Ok([category   |-> best_category,
                        confidence |-> KeywordConfidence(CountOf(scores, best_category))])
           ELSE IF amount > 0
           THEN Ok([category |-> "Other Income", confidence |-> DefaultConfidence])
           ELSE Ok([category |-> "Other Expense", confidence |-> DefaultConfidence])

----------------------------------------------------------------------------
(* repositories.py and database.py: the transactions table *)

\* The calendar of datetime: a date is a year and the day of that year.
IsLeap(year) == year % 4 = 0 /\ (year % 100 # 0 \/ year % 400 = 0)

DaysInMonth(year) ==
  <<31, IF IsLeap(year) THEN 29 ELSE 28, 31, 30, 31, 30, 31, 31, 30, 31, 30, 31>>

RECURSIVE DaysBeforeMonth(_, _)
DaysBeforeMonth(year, month) ==
  IF month = 1 THEN 0
  ELSE DaysBeforeMonth(year, month - 1) + DaysInMonth(year)[month - 1]

MonthOf(year, day) ==
  CHOOSE m \in 1..12 :
    DaysBeforeMonth(year, m) < day /\ day <= DaysBeforeMonth(year, m) + DaysInMonth(year)[m]

DayOfMonth(year, day) == day - DaysBeforeMonth(year, MonthOf(year, day))

\* date.toordinal(): the days from 1 January of the year 1, which is day 1.
ToOrdinal(d) ==
  LET y == d.year - 1
  IN  y * 365 + (y \div 4) - (y \div 100) + (y \div 400) + d.day

\* The hours from the start of the year 1; isoformat() text is ordered as
\* the instants are.
DateKey(d) == ToOrdinal(d) * 24 + d.hour

RowIds(transactions) == {t.id : t \in transactions}

RowById(transactions, id) == CHOOSE t \in transactions : t.id = id

\* TransactionRepository.create inside Database.get_connection: the INSERT
\* and its commit, or the rollback and the re-raised error.  storage_error is
\* an I/O failure of the connection; a None merchant breaks NOT NULL.
\* AUTOINCREMENT numbers rows from the sequence, which a rollback leaves alone.
Repo_create(transactions, nextId, t, storage_error) ==
  IF storage_error THEN Raise("OperationalError")
  ELSE IF t.merchant = NoneStr THEN Raise("IntegrityError")
  ELSE Ok([transactions |-> transactions \cup {[t EXCEPT !.id = nextId]},
           nextId       |-> nextId + 1,
           lastrowid    |-> nextId])

\* Optional[Transaction]: NoRow for None, <<t>> for a transaction t.
NoRow == << >>

\* TransactionRepository.get_by_id
Repo_get_by_id(transactions, id) ==
  IF id \in RowIds(transactions) THEN <<RowById(transactions, id)>> ELSE NoRow

\* update writing the row whether or not the id exists.
Repo_update_Upsert(transactions, t, storage_error) ==
  IF storage_error THEN Raise("OperationalError")
  ELSE IF t.merchant = NoneStr THEN Raise("IntegrityError")
  ELSE Ok([transactions |-> {r \in transactions : r.id # t.id} \cup {t},
           success      |-> t.id \in RowIds(transactions)])

\* TransactionRepository.update: UPDATE ... WHERE id = ?, rowcount > 0.
\* NOT NULL is checked only for a row that is actually rewritten.
Repo_update(transactions, t, storage_error) ==
  IF storage_error THEN Raise("OperationalError")
  ELSE IF t.id \notin RowIds(transactions)
  THEN Ok([transactions |-> transactions, success |-> FALSE])
  ELSE IF t.merchant = NoneStr THEN Raise("IntegrityError")
  ELSE Ok([transactions |-> (transactions \ {RowById(transactions, t.id)}) \cup {t},
           success      |-> TRUE])

\* TransactionRepository.delete: DELETE ... WHERE id = ?, rowcount > 0
Repo_delete(transactions, id, storage_error) ==
  IF storage_error THEN Raise("OperationalError")
  ELSE Ok([transactions |-> {t \in transactions : t.id # id},
           success      |-> id \in RowIds(transactions)])

\* TransactionRepository.get_all(): SELECT * ... ORDER BY date DESC.  SQL
\* leaves the order of rows with equal dates open, so every listing that
\* descends by date is a possible result.
RECURSIVE Repo_get_all(_)
Repo_get_all(transactions) ==
  IF transactions = {} THEN {<< >>}
  ELSE LET latest == Max({DateKey(t.date) : t \in transactions})
       IN  UNION {{<<t>> \o rest : rest \in Repo_get_all(transactions \ {t})} :
                    t \in {u \in transactions : DateKey(u.date) = latest}}

----------------------------------------------------------------------------
(* ml_engine.py: training *)

CategoriesOf(order, merchant) ==
  LET rows == SelectSeq(order, LAMBDA t : t.merchant = merchant)
  IN  [i \in 1..Len(rows) |-> rows[i].category]

\* train_from_history keeping the category of the first row listed.
train_from_history_First(order) ==
  [merchant \in {order[i].merchant : i \in DOMAIN order} |->
      CategoriesOf(order, merchant)[1]]

\* MLEngine.train_from_history on one listing of the table: the new
\* merchant_history.
train_from_history(order) ==
  [merchant \in {order[i].merchant : i \in DOMAIN order} |->
      MostCommon(CategoriesOf(order, merchant))]

\* The merchant_history values train_from_history can produce for a table.
TrainedHistories(transactions) ==
  {train_from_history(order) : order \in Repo_get_all(transactions)}

----------------------------------------------------------------------------
(* services.py: transaction operations.  A service state is                *)
(* [transactions, nextId, merchant_history]; an operation yields the set   *)
(* of its possible outcomes [svc, exc, ret], exc naming the exception that *)
(* reaches the caller (None when the call returns).  faults tells whether  *)
(* the storage may fail during the call; import and export are modelled    *)
(* over a storage that does not.                                           *)

Outcome(svc, exc, ret) == [svc |-> svc, exc |-> exc, ret |-> ret]

StorageErrors(faults) == IF faults THEN {FALSE, TRUE} ELSE {FALSE}

\* _row_to_transaction converts every stored row: Category(...) and
\* TransactionType(...) raise ValueError on a string that is not a value of
\* the enumeration.
RowsReadable(transactions) ==
  \A t \in transactions :
    t.category \in Category /\ t.transaction_type \in TransactionType

\* The retraining that ends a successful write, in a connection of its own
\* after the write was committed: get_all may fail (a storage error, or a
\* stored row that does not convert), leaving merchant_history as it was;
\* otherwise the map is rebuilt.
Retrained(svc, transactions, nextId, ret, faults) ==
  IF ~RowsReadable(transactions)
  THEN {Outcome([transactions |-> transactions, nextId |-> nextId,
                 merchant_history |-> svc.merchant_history], "ValueError", None)}
  ELSE
  {Outcome([transactions |-> transactions, nextId |-> nextId,
            merchant_history |-> h], None, ret) :
      h \in TrainedHistories(transactions)}
  \cup
  {Outcome([transactions |-> transactions, nextId |-> nextId,
            merchant_history |-> svc.merchant_history], "OperationalError", None) :
      e \in StorageErrors(faults) \ {FALSE}}

\* The category and confidence add_transaction settles on before the
\* insert: the caller's category with confidence 1.0, or the classifier's.
AddCategorized(svc, merchant, amount, category) ==
  IF category = None
  THEN MLEngine_predict_category(svc.merchant_history, merchant, amount)
  ELSE Ok([category |-> category, confidence |-> <<1, 1>>])

\* The type inferred from the sign with amount 0 taken as income.
InferredType_ZeroIsIncome(amount, transaction_type) ==
  IF transaction_type = None
  THEN (IF amount >= 0 THEN "income" ELSE "expense")
  ELSE transaction_type

\* The type add_transaction stores: INCOME if amount > 0 else EXPENSE when
\* none is given.
InferredType(amount, transaction_type) ==
  IF transaction_type = None
  THEN (IF amount > 0 THEN "income" ELSE "expense")
  ELSE transaction_type

\* FinanceService.add_transaction
add_transaction(svc, date, amount, merchant, category, transaction_type, faults) ==
  LET ttype == InferredType(amount, transaction_type)
      pred  == AddCategorized(svc, merchant, amount, category)
  IN  IF pred.exc # None THEN {Outcome(svc, pred.exc, None)}
      ELSE LET transaction == [id |-> None, date |-> date, amount |-> amount,
                               merchant |-> merchant,
                               category |-> pred.val.category,
                               transaction_type |-> ttype,
                               confidence_score |-> pred.val.confidence]
           IN  UNION {
                 LET created == Repo_create(svc.transactions, svc.nextId, transaction, e)
                 IN  IF created.exc # None THEN {Outcome(svc, created.exc, None)}
                     ELSE Retrained(svc, created.val.transactions, created.val.nextId,
                                    [transaction EXCEPT !.id = created.val.lastrowid],
                                    faults)
                 : e \in StorageErrors(faults)}

\* FinanceService.get_transaction_by_id
get_transaction_by_id(svc, id) ==
  {Outcome(svc, None, Repo_get_by_id(svc.transactions, id))}

\* FinanceService.update_transaction
update_transaction(svc, transaction, faults) ==
  UNION {
    LET updated == Repo_update(svc.transactions, transaction, e)
    IN  IF updated.exc # None THEN {Outcome(svc, updated.exc, None)}
        ELSE IF updated.val.success
        THEN Retrained(svc, updated.val.transactions, svc.nextId, TRUE, faults)
        ELSE {Outcome(svc, None, FALSE)}
    : e \in StorageErrors(faults)}

\* FinanceService.delete_transaction
delete_transaction(svc, id, faults) ==
  UNION {
    LET deleted == Repo_delete(svc.transactions, id, e)
    IN  IF deleted.exc # None THEN {Outcome(svc, deleted.exc, None)}
        ELSE IF deleted.val.success
        THEN Retrained(svc, deleted.val.transactions, svc.nextId, TRUE, faults)
        ELSE {Outcome(svc, None, FALSE)}
    : e \in StorageErrors(faults)}

\* predict_category asking the classifier first when it knows the merchant.
FinanceService_predict_category_HistoryFirst(svc, merchant, amount) ==
  IF merchant = NoneStr THEN Raise("AttributeError")
  ELSE LET rule_cat == rule_based_category(merchant)
           ml       == MLEngine_predict_category(svc.merchant_history, merchant, amount)
       IN  IF merchant \in DOMAIN svc.merchant_history THEN Ok(ml.val)
           ELSE IF rule_cat # None
           THEN Ok([category |-> rule_cat, confidence |-> <<95, 100>>])
           ELSE Ok(ml.val)

\* FinanceService.predict_category: the rule table, then the classifier
\* inside try/except, then the final fallback.
FinanceService_predict_category(svc, merchant, amount) ==
  IF merchant = NoneStr THEN Raise("AttributeError")
  ELSE LET rule_cat == rule_based_category(merchant)
           ml       == MLEngine_predict_category(svc.merchant_history, merchant, amount)
       IN  IF rule_cat # None
           THEN Ok([category |-> rule_cat, confidence |-> <<95, 100>>])
           ELSE IF ml.exc = None
           THEN Ok(ml.val)
           ELSE Ok([category |-> "Other Expense", confidence |-> <<0, 1>>])

----------------------------------------------------------------------------
(* Text of numbers and dates *)

Digits == <<"0", "1", "2", "3", "4", "5", "6", "7", "8", "9">>

IsDigit(c) == \E i \in DOMAIN Digits : Digits[i] = c

DigitVal(c) == (CHOOSE i \in DOMAIN Digits : Digits[i] = c) - 1

RECURSIVE NatStr(_)
\* str(n) for a natural number n
NatStr(n) == IF n < 10 THEN <<Digits[n + 1]>> ELSE NatStr(n \div 10) \o <<Digits[(n % 10) + 1]>>

RECURSIVE StrNat(_)
\* int(s) for a non-empty run of decimal digits
StrNat(s) ==
  IF Len(s) = 1 THEN DigitVal(s[1])
  ELSE StrNat(SubSeq(s, 1, Len(s) - 1)) * 10 + DigitVal(s[Len(s)])

AllDigits(s) == Len(s) > 0 /\ \A i \in DOMAIN s : IsDigit(s[i])

TwoDigits(n) == <<Digits[(n \div 10) + 1], Digits[(n % 10) + 1]>>

\* repr() of a float holding a whole number of cents, as csv writes it:
\* sign, integer part, point, shortest fraction ("-5.5", "7.0", "0.05").
FloatRepr(amount) ==
  LET a    == IF amount < 0 THEN -amount ELSE amount
      frac == a % 100
  IN  (IF amount < 0 THEN <<"-">> ELSE << >>)
      \o NatStr(a \div 100) \o <<".">>
      \o (IF frac % 10 = 0 THEN <<Digits[(frac \div 10) + 1]>> ELSE TwoDigits(frac))

IsSpace(c) == c \in {" ", "\t", "\r", "\n"}

RECURSIVE Strip(_)
\* str.strip()
Strip(s) ==
  IF s = << >> THEN s
  ELSE IF IsSpace(s[1]) THEN Strip(Tail(s))
  ELSE IF IsSpace(s[Len(s)]) THEN Strip(SubSeq(s, 1, Len(s) - 1))
  ELSE s

\* float(text) for the decimal texts of the model: optional surrounding
\* white space and sign, digits, and at most two decimals; every other text
\* of the model is not a number and raises ValueError.  None raises TypeError.
ParseFloat(text) ==
  IF text = NoneStr THEN Raise("TypeError")
  ELSE LET t      == Strip(text)
           signed == t # << >> /\ t[1] \in {"-", "+"}
           body   == IF signed THEN Tail(t) ELSE t
           dots   == {i \in DOMAIN body : body[i] = "."}
           ip     == IF dots = {} THEN body ELSE SubSeq(body, 1, Min(dots) - 1)
           fp     == IF dots = {} THEN << >> ELSE SubSeq(body, Min(dots) + 1, Len(body))
           cents  == IF fp = << >> THEN 0
                     ELSE IF Len(fp) = 1 THEN DigitVal(fp[1]) * 10
                     ELSE StrNat(fp)
           mag    == (IF ip = << >> THEN 0 ELSE StrNat(ip) * 100) + cents
       IN  IF /\ ip \o fp # << >>
              /\ ip = << >> \/ AllDigits(ip)
              /\ fp = << >> \/ (AllDigits(fp) /\ Len(fp) <= 2)
           THEN Ok(IF signed /\ t[1] = "-" THEN -mag ELSE mag)
           ELSE Raise("ValueError")


\* strftime('%Y'): the C library formats the year, and whether a year below
\* 1000 is zero-filled to four digits depends on the platform (glibc does
\* not fill); padded chooses between the two.
StrfYear(year, padded) ==
  LET digits == NatStr(year)
  IN  IF padded THEN [i \in 1..(4 - Len(digits)) |-> "0"] \o digits ELSE digits

\* date.strftime('%Y-%m-%d')
StrfDate(d, padded) ==
  StrfYear(d.year, padded) \o <<"-">> \o TwoDigits(MonthOf(d.year, d.day))
    \o <<"-">> \o TwoDigits(DayOfMonth(d.year, d.day))

\* datetime.fromisoformat(text) for the dates of the model: the date alone
\* (midnight) or the date, "T" and a whole hour; every other text of the
\* model raises ValueError.  None raises TypeError.
FromIsoFormat(text) ==
  IF text = NoneStr THEN Raise("TypeError")
  ELSE LET yyyy == SubSeq(text, 1, 4)
           mm   == SubSeq(text, 6, 7)
           dd   == SubSeq(text, 9, 10)
           rest == SubSeq(text, 11, Len(text))
           hh   == SubSeq(rest, 2, 3)
           year == StrNat(yyyy)
           okDate == /\ Len(text) >= 10
                     /\ AllDigits(yyyy) /\ year >= 1
                     /\ text[5] = "-" /\ text[8] = "-"
                     /\ AllDigits(mm) /\ StrNat(mm) \in 1..12
                     /\ AllDigits(dd) /\ StrNat(dd) \in 1..DaysInMonth(year)[StrNat(mm)]
           okTime == /\ Len(rest) = 9 /\ rest[1] = "T"
                     /\ AllDigits(hh) /\ StrNat(hh) \in 0..23
                     /\ SubSeq(rest, 4, 9) = <<":","0","0",":","0","0">>
           day  == DaysBeforeMonth(year, StrNat(mm)) + StrNat(dd)
       IN  IF okDate /\ rest = << >> THEN Ok([year |-> year, day |-> day, hour |-> 0])
           ELSE IF okDate /\ okTime THEN Ok([year |-> year, day |-> day, hour |-> StrNat(hh)])
           ELSE Raise("ValueError")

----------------------------------------------------------------------------
(* The csv module with the default (excel) dialect *)

\* csv.writer: one field under QUOTE_MINIMAL.  A field holding the
\* delimiter, the quote character or a line-terminator character is put in
\* quotes, with every quote character doubled.
CsvField(field) ==
  LET special == \E i \in DOMAIN field : field[i] \in {",", "\"", "\r", "\n"}
      RECURSIVE Doubled(_)
      Doubled(f) == IF f = << >> THEN << >>
                    ELSE (IF f[1] = "\"" THEN <<"\"", "\"">> ELSE <<f[1]>>) \o Doubled(Tail(f))
  IN  IF special THEN <<"\"">> \o Doubled(field) \o <<"\"">> ELSE field

RECURSIVE CsvJoin(_)
CsvJoin(fields) ==
  IF Len(fields) = 1 THEN CsvField(fields[1])
  ELSE CsvField(fields[1]) \o <<",">> \o CsvJoin(Tail(fields))

\* csv.writer.writerow: the fields and the line terminator "\r\n".
CsvWriteRow(fields) == CsvJoin(fields) \o <<"\r", "\n">>

\* The marker the reader processes at the end of every line it is given.
EOL == "EOL"

\* parse_process_char of the reader: p is [state, field, fields, error].
CsvProcessChar(p, c) ==
  LET newline == c \in {"\n", "\r", EOL}
      after   == IF c = EOL THEN "START_RECORD" ELSE "EAT_CRNL"
      save    == Append(p.fields, p.field)
      start   == IF newline
                 THEN [p EXCEPT !.fields = save, !.field = << >>, !.state = after]
                 ELSE IF c = "\"" THEN [p EXCEPT !.state = "IN_QUOTED_FIELD"]
                 ELSE IF c = "," THEN [p EXCEPT !.fields = save, !.field = << >>,
                                                !.state = "START_FIELD"]
                 ELSE [p EXCEPT !.field = <<c>>, !.state = "IN_FIELD"]
  IN  CASE p.state = "START_RECORD" ->
             IF c = EOL THEN p
             ELSE IF c \in {"\n", "\r"} THEN [p EXCEPT !.state = "EAT_CRNL"]
             ELSE start
        [] p.state = "START_FIELD" -> start
        [] p.state = "IN_FIELD" ->
             IF newline
             THEN [p EXCEPT !.fields = save, !.field = << >>, !.state = after]
             ELSE IF c = ","
             THEN [p EXCEPT !.fields = save, !.field = << >>, !.state = "START_FIELD"]
             ELSE [p EXCEPT !.field = Append(p.field, c)]
        [] p.state = "IN_QUOTED_FIELD" ->
             IF c = EOL THEN p
             ELSE IF c = "\"" THEN [p EXCEPT !.state = "QUOTE_IN_QUOTED_FIELD"]
             ELSE [p EXCEPT !.field = Append(p.field, c)]
        [] p.state = "QUOTE_IN_QUOTED_FIELD" ->
             IF c = "\""
             THEN [p EXCEPT !.field = Append(p.field, c), !.state = "IN_QUOTED_FIELD"]
             ELSE IF c = ","
             THEN [p EXCEPT !.fields = save, !.field = << >>, !.state = "START_FIELD"]
             ELSE IF newline
             THEN [p EXCEPT !.fields = save, !.field = << >>, !.state = after]
             ELSE [p EXCEPT !.field = Append(p.field, c), !.state = "IN_FIELD"]
        [] p.state = "EAT_CRNL" ->
             IF c \in {"\n", "\r"} THEN p
             ELSE IF c = EOL THEN [p EXCEPT !.state = "START_RECORD"]
             ELSE [p EXCEPT !.error = TRUE]

CsvStart == [state |-> "START_RECORD", field |-> << >>, fields |-> << >>, error |-> FALSE]

\* The lines iterating io.StringIO(text) hands out: each ends with its
\* "\n", but for a last line that has none.
StringIOLines(text) ==
  LET ends == {i \in DOMAIN text : text[i] = "\n" \/ i = Len(text)}
      End(k) == CHOOSE e \in ends : Cardinality({x \in ends : x <= e}) = k
  IN  [k \in 1..Cardinality(ends) |->
         SubSeq(text, IF k = 1 THEN 1 ELSE End(k - 1) + 1, End(k))]

RECURSIVE CsvFeed(_, _, _)
\* The characters of one line, from the i-th on, through parse_process_char.
CsvFeed(p, line, i) ==
  IF p.error \/ i > Len(line) THEN p
  ELSE CsvFeed(CsvProcessChar(p, line[i]), line, i + 1)

RECURSIVE CsvRead(_, _, _, _)
\* csv.reader over the lines from the k-th on, p being the parser inside
\* the current record and records those already returned.  The reader
\* processes the characters of a line, then EOL, and returns the record
\* when it is back in START_RECORD; at the end of the input an unfinished
\* record is returned as it stands.  The result is [records, error]: error
\* tells that csv.Error was raised after the records listed.
CsvRead(lines, k, p, records) ==
  IF k > Len(lines)
  THEN (IF p.field # << >> \/ p.state = "IN_QUOTED_FIELD"
        THEN [records |-> Append(records, Append(p.fields, p.field)), error |-> FALSE]
        ELSE [records |-> records, error |-> FALSE])
  ELSE LET q == CsvFeed(p, lines[k], 1)
           r == IF q.error THEN q ELSE CsvProcessChar(q, EOL)
       IN  IF r.error THEN [records |-> records, error |-> TRUE]
           ELSE IF r.state = "START_RECORD"
           THEN CsvRead(lines, k + 1, CsvStart, Append(records, r.fields))
           ELSE CsvRead(lines, k + 1, r, records)

\* The value a DictReader row gives for a column: the field under the last
\* header cell of that name, None (restval) when the record is too short.
\* The result is << >> when the header has no such column.
DictGet(fieldnames, record, key) ==
  LET cols == {k \in DOMAIN fieldnames : fieldnames[k] = key}
  IN  IF cols = {} THEN << >>
      ELSE IF Max(cols) <= Len(record) THEN <<record[Max(cols)]>>
      ELSE <<NoneStr>>

\* row.get(key, row.get(Key, default))
RowGet(fieldnames, record, key, Key, default) ==
  LET a == DictGet(fieldnames, record, key)
      b == DictGet(fieldnames, record, Key)
  IN  IF a # << >> THEN a[1] ELSE IF b # << >> THEN b[1] ELSE default

\* csv.DictReader: the first record is the header; empty records are
\* skipped.  [fieldnames, rows, error]
DictReader(text) ==
  LET read == CsvRead(StringIOLines(text), 1, CsvStart, << >>)
      recs == read.records
  IN  [fieldnames |-> IF recs = << >> THEN << >> ELSE recs[1],
       rows       |-> SelectSeq(IF recs = << >> THEN << >> ELSE Tail(recs),
                                LAMBDA r : r # << >>),
       error      |-> read.error]

----------------------------------------------------------------------------
(* services.py: import and export *)

\* Category(category_str): the member with that value; ValueError otherwise.
CategoryByValue(text) ==
  LET found == {c \in Category : CategoryChars[c] = text}
  IN  IF found = {} THEN Raise("ValueError") ELSE Ok(CHOOSE c \in found : TRUE)

\* The category import_from_csv passes on: None for an empty or missing
\* cell, and None again when the text names no member (except ValueError: pass).
ImportCategory(category_str) ==
  IF category_str = NoneStr \/ category_str = << >> THEN None
  ELSE IF CategoryByValue(category_str).exc # None THEN None
  ELSE CategoryByValue(category_str).val

K_date == <<"d","a","t","e">>
K_Date == <<"D","a","t","e">>
K_amount == <<"a","m","o","u","n","t">>
K_Amount == <<"A","m","o","u","n","t">>
K_merchant == <<"m","e","r","c","h","a","n","t">>
K_Merchant == <<"M","e","r","c","h","a","n","t">>
K_category == <<"c","a","t","e","g","o","r","y">>
K_Category == <<"C","a","t","e","g","o","r","y">>

\* The row loop reporting a failing row without counting it.
ImportRow_Uncounted(st, fieldnames, record) ==
  LET date_str     == RowGet(fieldnames, record, K_date, K_Date, << >>)
      amount_str   == RowGet(fieldnames, record, K_amount, K_Amount, <<"0">>)
      merchant     == RowGet(fieldnames, record, K_merchant, K_Merchant, <<"U","n","k","n","o","w","n">>)
      category_str == RowGet(fieldnames, record, K_category, K_Category, << >>)
      date         == FromIsoFormat(date_str)
      amount       == ParseFloat(amount_str)
      Failed(svc, e) == [st EXCEPT !.svc = svc,
                                   !.errors = Append(@, <<"Row error", e>>)]
  IN  IF date.exc # None THEN {Failed(st.svc, date.exc)}
      ELSE IF amount.exc # None THEN {Failed(st.svc, amount.exc)}
      ELSE {IF o.exc # None THEN Failed(o.svc, o.exc)
            ELSE [st EXCEPT !.svc = o.svc, !.imported = @ + 1] :
              o \in add_transaction(st.svc, date.val, amount.val, merchant,
                                    ImportCategory(category_str), None, FALSE)}

\* One turn of the row loop of import_from_csv on the progress
\* st = [svc, imported, failed, errors]: the possible progress after it.
ImportRow(st, fieldnames, record) ==
  LET date_str     == RowGet(fieldnames, record, K_date, K_Date, << >>)
      amount_str   == RowGet(fieldnames, record, K_amount, K_Amount, <<"0">>)
      merchant     == RowGet(fieldnames, record, K_merchant, K_Merchant, <<"U","n","k","n","o","w","n">>)
      category_str == RowGet(fieldnames, record, K_category, K_Category, << >>)
      date         == FromIsoFormat(date_str)
      amount       == ParseFloat(amount_str)
      Failed(svc, e) == [st EXCEPT !.svc = svc, !.failed = @ + 1,
                                   !.errors = Append(@, <<"Row error", e>>)]
  IN  IF date.exc # None THEN {Failed(st.svc, date.exc)}
      ELSE IF amount.exc # None THEN {Failed(st.svc, amount.exc)}
      ELSE {IF o.exc # None THEN Failed(o.svc, o.exc)
            ELSE [st EXCEPT !.svc = o.svc, !.imported = @ + 1] :
              o \in add_transaction(st.svc, date.val, amount.val, merchant,
                                    ImportCategory(category_str), None, FALSE)}

RECURSIVE ImportRows(_, _, _, _)
ImportRows(st, fieldnames, rows, k) ==
  IF k > Len(rows) THEN {st}
  ELSE UNION {ImportRows(st2, fieldnames, rows, k + 1) :
                st2 \in ImportRow(st, fieldnames, rows[k])}

ErrorCap == 10

\* The texts import_from_csv is called with.
CsvHeader == <<"d","a","t","e",",","a","m","o","u","n","t",",","m","e","r","c","h","a","n","t",",","c","a","t","e","g","o","r","y">> \o <<"\n">>

\* The lines import inputs are made of, by kind.
CsvLine ==
  [ goodCat    |-> <<"2","0","2","4","-","0","1","-","0","2",",","7",".","0",",","\"","J","o",",","\"","\"","e","\"",",","G","r","o","c","e","r","i","e","s">>,
    goodNoCat  |-> <<"2","0","2","4","-","0","1","-","0","3",",","-","5",".","5",",","S","t","a","r","b","u","c","k","s"," ","D","o","w","n","t","o","w","n",",">>,
    badDate    |-> <<"0","1","/","0","2",",","7",".","0",",","B","P"," ","G","a","s"," ","F","u","e","l"," ","T","a","x","i",",">>,
    badAmount  |-> <<"2","0","2","4","-","0","1","-","0","2",",","$","7",",","B","P"," ","G","a","s"," ","F","u","e","l"," ","T","a","x","i",",">>,
    unknownCat |-> <<"2","0","2","4","-","0","1","-","0","4",",","-","5",".","5",",","S","t","a","r","b","u","c","k","s"," ","D","o","w","n","t","o","w","n",",","F","o","o","d">>,
    short      |-> <<"2","0","2","4","-","0","1","-","0","2",",","7",".","0">>,
    strayCR    |-> <<"2","0","2","4","-","0","1","-","0","2",",","7",".","0",",","B">> \o <<"\r">> \o <<"P",",">>,
    blank      |-> << >> ]

RECURSIVE CsvLines(_)
CsvLines(kinds) ==
  IF kinds = << >> THEN << >>
  ELSE CsvLine[Head(kinds)] \o <<"\n">> \o CsvLines(Tail(kinds))

CsvText(kinds) == CsvHeader \o CsvLines(kinds)

ManyBadRows == [i \in 1..(ErrorCap + 1) |-> "badAmount"] \o <<"goodCat">>

\* The import inputs, each the list of the kinds of its lines.
CsvInputs ==
  { <<"goodCat", "goodNoCat">>,
    <<"goodNoCat", "badAmount", "blank", "goodCat">>,
    <<"badDate", "unknownCat", "badAmount", "goodCat">>,
    <<"short", "goodNoCat">>,
    <<"goodNoCat", "badAmount", "goodCat", "strayCR", "goodNoCat">>,
    ManyBadRows }

ImportTexts == {CsvText(kinds) : kinds \in CsvInputs}

\* DictReader tabulated for the import texts of the model.
ReaderTable == [text \in ImportTexts |-> DictReader(text)]

\* csv.DictReader(io.StringIO(csv_content))
ReaderOf(csv_content) ==
  IF csv_content \in ImportTexts THEN ReaderTable[csv_content]
  ELSE DictReader(csv_content)

\* import_from_csv undoing the inserts of the batch when the batch did not
\* go through whole.
import_from_csv_Rollback(svc, csv_content) ==
  LET reader == ReaderOf(csv_content)
      start  == [svc |-> svc, imported |-> 0, failed |-> 0, errors |-> << >>]
  IN  {LET errors == IF reader.error
                     THEN Append(st.errors, <<"CSV parse error", "Error">>)
                     ELSE st.errors
       IN  Outcome(IF errors = << >> THEN st.svc ELSE svc, None,
                   [imported |-> st.imported, failed |-> st.failed,
                    errors   |-> SubSeq(errors, 1, Min({ErrorCap, Len(errors)}))]) :
         st \in ImportRows(start, reader.fieldnames, reader.rows, 1)}

\* FinanceService.import_from_csv.  A csv.Error of the reader ends the row
\* loop; the outer handler adds its message and the counts are returned.
import_from_csv(svc, csv_content) ==
  LET reader == ReaderOf(csv_content)
      start  == [svc |-> svc, imported |-> 0, failed |-> 0, errors |-> << >>]
  IN  {LET errors == IF reader.error
                     THEN Append(st.errors, <<"CSV parse error", "Error">>)
                     ELSE st.errors
       IN  Outcome(st.svc, None,
                   [imported |-> st.imported, failed |-> st.failed,
                    errors   |-> SubSeq(errors, 1, Min({ErrorCap, Len(errors)}))]) :
         st \in ImportRows(start, reader.fieldnames, reader.rows, 1)}

ExportFieldnames ==
  << <<"i","d">>,
     <<"d","a","t","e">>,
     <<"m","e","r","c","h","a","n","t">>,
     <<"a","m","o","u","n","t">>,
     <<"c","a","t","e","g","o","r","y">>,
     <<"t","r","a","n","s","a","c","t","i","o","n","_","t","y","p","e">>,
     <<"n","o","t","e","s">>,
     <<"t","a","g","s">> >>

TypeChars ==
  ("expense" :> <<"e","x","p","e","n","s","e">>) @@ ("income" :> <<"i","n","c","o","m","e">>) @@ ("transfer" :> <<"t","r","a","n","s","f","e","r">>)

ExportRow(t, padded) ==
  CsvWriteRow(<< NatStr(t.id), StrfDate(t.date, padded), t.merchant, FloatRepr(t.amount),
                 CategoryChars[t.category], TypeChars[t.transaction_type],
                 << >>, << >> >>)

RECURSIVE ExportRows(_, _)
ExportRows(order, padded) ==
  IF order = << >> THEN << >>
  ELSE ExportRow(Head(order), padded) \o ExportRows(Tail(order), padded)

\* FinanceService.export_to_csv() without a date range: the header and one
\* line per transaction, in the order get_all lists them.
export_to_csv(svc) ==
  {Outcome(svc, None, CsvWriteRow(ExportFieldnames) \o ExportRows(order, padded)) :
     order \in Repo_get_all(svc.transactions), padded \in BOOLEAN}

----------------------------------------------------------------------------
(* analytics.py.  The operations read a listing of the table and compute   *)
(* in memory; a quotient of two floats is kept as the exact fraction       *)
(* <<numerator, denominator>>, 0 being <<0, 1>>.                           *)

Abs(x) == IF x < 0 THEN -x ELSE x

RECURSIVE Sum(_)
\* sum(...) of a list of numbers
Sum(numbers) ==
  IF numbers = << >> THEN 0 ELSE Head(numbers) + Sum(Tail(numbers))

Amounts(listing) == [i \in DOMAIN listing |-> listing[i].amount]

AbsAmounts(listing) == [i \in DOMAIN listing |-> Abs(listing[i].amount)]

IsExpense(t) == t.transaction_type = "expense"

IsIncome(t) == t.transaction_type = "income"

\* a / b for b > 0
Rat(a, b) == <<a, b>>

RatLt(a, b) == a[1] * b[2] < b[1] * a[2]

\* TransactionRepository.get_by_date_range: WHERE date BETWEEN ? AND ?
\* ORDER BY date DESC, both ends included.
Repo_get_by_date_range(transactions, start_date, end_date) ==
  Repo_get_all({t \in transactions :
                  /\ DateKey(start_date) <= DateKey(t.date)
                  /\ DateKey(t.date) <= DateKey(end_date)})

\* get_summary counting as income every positive amount, whatever its type.
Summary_BySign(listing) ==
  LET total_income   == Sum(Amounts(SelectSeq(listing, LAMBDA t : t.amount > 0)))
      expenses       == SelectSeq(listing, IsExpense)
      total_expenses == Sum(AbsAmounts(expenses))
      net            == total_income - total_expenses
  IN  [total_income |-> total_income, total_expenses |-> total_expenses, net |-> net,
       transaction_count |-> Len(listing),
       expense_count |-> Len(expenses),
       income_count |-> Len(listing) - Len(expenses),
       average_transaction |->
         IF expenses # << >> THEN Rat(total_expenses, Len(expenses)) ELSE Rat(0, 1),
       savings_rate |->
         IF total_income > 0 THEN Rat(net * 100, total_income) ELSE Rat(0, 1)]

\* The body of AnalyticsEngine.get_summary on the listing of the range.
Summary(listing) ==
  LET total_income   == Sum(Amounts(SelectSeq(listing, IsIncome)))
      expenses       == SelectSeq(listing, IsExpense)
      total_expenses == Sum(AbsAmounts(expenses))
      net            == total_income - total_expenses
  IN  [total_income |-> total_income, total_expenses |-> total_expenses, net |-> net,
       transaction_count |-> Len(listing),
       expense_count |-> Len(expenses),
       income_count |-> Len(listing) - Len(expenses),
       average_transaction |->
         IF expenses # << >> THEN Rat(total_expenses, Len(expenses)) ELSE Rat(0, 1),
       savings_rate |->
         IF total_income > 0 THEN Rat(net * 100, total_income) ELSE Rat(0, 1)]

\* AnalyticsEngine.get_summary: the results it can return.
get_summary(transactions, start_date, end_date) ==
  {Summary(listing) :
     listing \in Repo_get_by_date_range(transactions, start_date, end_date)}

\* The keys of a defaultdict filled with the keys of a list in turn, in
\* insertion order.
RECURSIVE KeysInOrder(_)
KeysInOrder(keys) ==
  IF keys = << >> THEN << >>
  ELSE LET rest == KeysInOrder(SubSeq(keys, 1, Len(keys) - 1))
           k    == keys[Len(keys)]
       IN  IF k \in Range(rest) THEN rest ELSE Append(rest, k)

\* max(items, key=value)[0]: the first key, in insertion order, holding the
\* greatest value.
KeyOfMax(keys, value) ==
  keys[Min({i \in DOMAIN keys : \A j \in DOMAIN keys : value[keys[j]] <= value[keys[i]]})]

\* get_category_breakdown taking every transaction of the range for an
\* expense.
Breakdown_AllTypes(listing) ==
  LET expenses == listing
      keys     == KeysInOrder([i \in DOMAIN expenses |-> expenses[i].category])
      category_totals ==
        [k \in Range(keys) |->
           Sum(AbsAmounts(SelectSeq(expenses, LAMBDA t : t.category = k)))]
      category_counts ==
        [k \in Range(keys) |-> Len(SelectSeq(expenses, LAMBDA t : t.category = k))]
      total == Sum([i \in DOMAIN keys |-> category_totals[keys[i]]])
  IN  [totals |-> category_totals, counts |-> category_counts,
       percentages |->
         [k \in Range(keys) |->
            IF total > 0 THEN Rat(category_totals[k] * 100, total) ELSE Rat(0, 1)],
       top_category |-> IF keys # << >> THEN KeyOfMax(keys, category_totals) ELSE None,
       total_spent |-> total]

\* The body of AnalyticsEngine.get_category_breakdown on the listing of the
\* range.
Breakdown(listing) ==
  LET expenses == SelectSeq(listing, IsExpense)
      keys     == KeysInOrder([i \in DOMAIN expenses |-> expenses[i].category])
      category_totals ==
        [k \in Range(keys) |->
           Sum(AbsAmounts(SelectSeq(expenses, LAMBDA t : t.category = k)))]
      category_counts ==
        [k \in Range(keys) |-> Len(SelectSeq(expenses, LAMBDA t : t.category = k))]
      total == Sum([i \in DOMAIN keys |-> category_totals[keys[i]]])
  IN  [totals |-> category_totals, counts |-> category_counts,
       percentages |->
         [k \in Range(keys) |->
            IF total > 0 THEN Rat(category_totals[k] * 100, total) ELSE Rat(0, 1)],
       top_category |-> IF keys # << >> THEN KeyOfMax(keys, category_totals) ELSE None,
       total_spent |-> total]

\* AnalyticsEngine.get_category_breakdown: the results it can return.
get_category_breakdown(transactions, start_date, end_date) ==
  {Breakdown(listing) :
     listing \in Repo_get_by_date_range(transactions, start_date, end_date)}

\* sorted(items, key=..., reverse=True) with keys[i] the key of items[i]:
\* descending by key, items of equal key in their order in items.
SortedDescending(items, keys) ==
  LET rank(i) == Cardinality({j \in DOMAIN items :
                                keys[j] > keys[i] \/ (keys[j] = keys[i] /\ j < i)}) + 1
  IN  [p \in DOMAIN items |-> items[CHOOSE i \in DOMAIN items : rank(i) = p]]

\* x > mean + threshold * variance ** 0.5 for the mean and the population
\* variance of amounts, threshold being a fraction that is not negative:
\* with n the length, S the sum and Q the sum of squares, n * x - S > 0 and
\* (n * x - S)^2 > threshold^2 * (n * Q - S^2).
ExceedsSpread(x, amounts, threshold) ==
  LET n == Len(amounts)
      S == Sum(amounts)
      Q == Sum([i \in DOMAIN amounts |-> amounts[i] * amounts[i]])
      excess == n * x - S
  IN  /\ excess > 0
      /\ excess * excess * threshold[2] * threshold[2]
           > threshold[1] * threshold[1] * (n * Q - S * S)

MinExpenses == 10

\* find_anomalies without the minimum of ten expenses.
Anomalies_NoMinimum(listing, threshold) ==
  LET expenses  == SelectSeq(listing, IsExpense)
      amounts   == AbsAmounts(expenses)
      anomalies == SelectSeq(expenses,
                             LAMBDA t : ExceedsSpread(Abs(t.amount), amounts, threshold))
  IN  SortedDescending(anomalies, AbsAmounts(anomalies))

\* The body of AnalyticsEngine.find_anomalies on the listing of the table.
Anomalies(listing, threshold) ==
  LET expenses  == SelectSeq(listing, IsExpense)
      amounts   == AbsAmounts(expenses)
      anomalies == SelectSeq(expenses,
                             LAMBDA t : ExceedsSpread(Abs(t.amount), amounts, threshold))
  IN  IF Len(expenses) < MinExpenses THEN << >>
      ELSE SortedDescending(anomalies, AbsAmounts(anomalies))

\* AnalyticsEngine.find_anomalies: the results it can return.
find_anomalies(transactions, threshold) ==
  {Anomalies(listing, threshold) : listing \in Repo_get_all(transactions)}

----------------------------------------------------------------------------
(* ml_engine.py: recurring transactions *)

\* round(a / b) for a >= 0 and b > 0: to the nearest whole number, a half
\* going to the even neighbour.
RoundHalfEven(a, b) ==
  LET q == a \div b
      r == a % b
  IN  IF 2 * r < b THEN q
      ELSE IF 2 * r > b THEN q + 1
      ELSE IF q % 2 = 0 THEN q ELSE q + 1

MinOccurrences == 3

\* round(abs(t.amount)): the amount in whole currency units.
RoundedAmount(t) == RoundHalfEven(Abs(t.amount), 100)

GroupKey(t) == <<t.merchant, RoundedAmount(t)>>

\* sorted(items, key=...) with keys[i] the key of items[i]: ascending by
\* key, items of equal key in their order in items.
SortedAscending(items, keys) ==
  LET rank(i) == Cardinality({j \in DOMAIN items :
                                keys[j] < keys[i] \/ (keys[j] = keys[i] /\ j < i)}) + 1
  IN  [p \in DOMAIN items |-> items[CHOOSE i \in DOMAIN items : rank(i) = p]]

\* (later - earlier).days: the whole days of the difference.
DaysBetween(earlier, later) == (DateKey(later) - DateKey(earlier)) \div 24

\* The day gaps between the successive transactions of a group sorted by
\* date.
Intervals(sorted_trans) ==
  [i \in 1..(Len(sorted_trans) - 1) |->
     DaysBetween(sorted_trans[i].date, sorted_trans[i + 1].date)]

RECURSIVE Pow2Mod(_, _)
\* 2^k modulo n.
Pow2Mod(k, n) == IF k = 0 THEN 1 % n ELSE (2 * Pow2Mod(k - 1, n)) % n

RECURSIVE Log2Floor(_, _)
\* The exponent e of the binade of S / n: 2^e <= S / n < 2^(e+1), S, n > 0.
Log2Floor(S, n) ==
  IF S < n THEN Log2Floor(2 * S, n) - 1
  ELSE IF S >= 2 * n THEN Log2Floor(S, 2 * n) + 1
  ELSE 0

\* How the float quotient S / n lies to the exact quotient: 1 when it was
\* rounded up, -1 when it was rounded down, 0 when it is exact.  The
\* significand of a float has 53 bits: it is S * 2^k / n rounded to a whole
\* number, k placing it in 2^52 .. 2^53 - 1; the remainder of that division tells the direction (a
\* quotient of small numbers never lies half-way between two floats).
QuotientRounding(S, n) ==
  LET k == 52 - Log2Floor(S, n)
      r == ((S % n) * Pow2Mod(k, n)) % n
  IN  IF r = 0 THEN 0 ELSE IF 2 * r > n THEN 1 ELSE -1

\* abs(interval - avg_interval) / avg_interval < 0.2 for avg_interval the
\* float S / n, S > 0.  Off the bound the floats decide as the exact numbers
\* do.  On it, 5 * |n * interval - S| = S, the subtraction is exact and the
\* quotient falls below the float 0.2 exactly when the rounding of
\* avg_interval moved it towards the interval.
DeviatesLess(interval, S, n) ==
  IF 5 * Abs(n * interval - S) # S
  THEN 5 * Abs(n * interval - S) < S
  ELSE \/ n * interval > S /\ QuotientRounding(S, n) = 1
       \/ n * interval < S /\ QuotientRounding(S, n) = -1

\* all(abs(interval - avg_interval) / avg_interval < 0.2 ...) for a mean
\* above 0.
IsConsistent(intervals) ==
  \A i \in DOMAIN intervals :
    DeviatesLess(intervals[i], Sum(intervals), Len(intervals))

\* The confidence of a pattern without its cap.
PatternConfidence_NoCap(occurrences) == <<occurrences, 10>>

\* min(len(trans_list) / 10, 0.95)
PatternConfidence(occurrences) == RatMin(<<occurrences, 10>>, <<95, 100>>)

\* The pattern of a consistent group.  next_expected, the last date plus
\* timedelta(days=avg_interval), is the fraction of the hours it lies after
\* the start of the year 1.
Pattern(key, sorted_trans) ==
  LET intervals == Intervals(sorted_trans)
      last_transaction == sorted_trans[Len(sorted_trans)]
  IN  [merchant |-> key[1], amount |-> key[2],
       frequency_days |-> RoundHalfEven(Sum(intervals), Len(intervals)),
       occurrences |-> Len(sorted_trans),
       last_date |-> last_transaction.date,
       next_expected |-> <<DateKey(last_transaction.date) * Len(intervals)
                             + 24 * Sum(intervals), Len(intervals)>>,
       confidence |-> PatternConfidence(Len(sorted_trans))]

\* The body of MLEngine.predict_recurring_transactions on the listing of the
\* table.  A group of three or more whose gaps are all 0 has mean gap 0 and
\* the consistency test divides by it.
RecurringPatterns(listing) ==
  LET expenses == SelectSeq(listing, IsExpense)
      keys     == KeysInOrder([i \in DOMAIN expenses |-> GroupKey(expenses[i])])
      group(k) == LET trans_list == SelectSeq(expenses, LAMBDA t : GroupKey(t) = k)
                  IN  SortedAscending(trans_list,
                                      [i \in DOMAIN trans_list |-> DateKey(trans_list[i].date)])
      large    == SelectSeq(keys, LAMBDA k : Len(group(k)) >= MinOccurrences)
      kept     == SelectSeq(large, LAMBDA k : IsConsistent(Intervals(group(k))))
      recurring_patterns == [i \in DOMAIN kept |-> Pattern(kept[i], group(kept[i]))]
  IN  IF \E i \in DOMAIN large : Sum(Intervals(group(large[i]))) = 0
      THEN Raise("ZeroDivisionError")
      ELSE Ok(SortedDescending(recurring_patterns,
                               [i \in DOMAIN recurring_patterns |->
                                  (recurring_patterns[i].confidence[1] * 100)
                                    \div recurring_patterns[i].confidence[2]]))

\* MLEngine.predict_recurring_transactions: the outcomes it can have.
predict_recurring_transactions(transactions) ==
  {RecurringPatterns(listing) : listing \in Repo_get_all(transactions)}

----------------------------------------------------------------------------
(* analytics.py: trends *)

\* timedelta(days=n) before a datetime, within the year.
DaysBefore(d, n) == [d EXCEPT !.day = @ - n]

\* t.date.date()
DateOf(d) == [year |-> d.year, day |-> d.day]

\* The body of AnalyticsEngine.detect_spending_trends on the listing of the
\* window.  daily_spending gets its keys in the order of the listing, newest
\* day first, and values lists them in that order; values[-7:] are the last
\* seven of that list.  The averages and the change are exact fractions.
Trends(listing) ==
  LET expenses == SelectSeq(listing, IsExpense)
      days     == KeysInOrder([i \in DOMAIN expenses |-> DateOf(expenses[i].date)])
      daily_spending ==
        [k \in Range(days) |->
           Sum(AbsAmounts(SelectSeq(expenses, LAMBDA t : DateOf(t.date) = k)))]
      values   == [i \in DOMAIN days |-> daily_spending[days[i]]]
      n        == Len(values)
      total    == Sum(values)
      recent   == Sum(SubSeq(values, n - 6, n))
      daily_data == [i \in DOMAIN days |->
                       [day |-> StrfDate(days[i], TRUE), spending |-> values[i]]]
  IN  IF n > 7
      THEN [average_daily_spending |-> Rat(total, n),
            recent_average |-> Rat(recent, 7),
            trend |-> IF total = 0 \/ Abs(recent * n - 7 * total) * 100 < 5 * 7 * total
                      THEN "stable"
                      ELSE IF recent * n > 7 * total THEN "increasing"
                      ELSE "decreasing",
            change_percentage |-> IF total > 0
                                  THEN Rat((recent * n - 7 * total) * 100, 7 * total)
                                  ELSE Rat(0, 1),
            daily_data |-> daily_data]
      ELSE [average_daily_spending |-> Rat(IF n > 0 THEN values[1] ELSE 0, 1),
            recent_average |-> Rat(IF n > 0 THEN values[1] ELSE 0, 1),
            trend |-> "stable",
            change_percentage |-> Rat(0, 1),
            daily_data |-> daily_data]

\* AnalyticsEngine.detect_spending_trends with datetime.now() = now: the
\* results it can return.
detect_spending_trends(transactions, now, days) ==
  {Trends(listing) : listing \in Repo_get_by_date_range(transactions, DaysBefore(now, days), now)}

----------------------------------------------------------------------------
(* analytics.py: budgets *)

\* A budget dictionary: a function of its keys, 'alert_threshold' being
\* there or not.
BudgetDict(category, amount) == [category |-> category, amount |-> amount]

BudgetDictWith(category, amount, alert_threshold) ==
  [category |-> category, amount |-> amount, alert_threshold |-> alert_threshold]

\* budget.get('alert_threshold', 0.8)
AlertThreshold(budget) ==
  IF "alert_threshold" \in DOMAIN budget THEN budget.alert_threshold ELSE Rat(8, 10)

\* category_breakdown['totals'].get(category, 0)
Spent(category_breakdown, category) ==
  IF category \in DOMAIN category_breakdown.totals
  THEN category_breakdown.totals[category] ELSE 0

\* (spent / budget_amount * 100) if budget_amount > 0 else 0
PercentageUsed(spent, budget_amount) ==
  IF budget_amount > 0 THEN Rat(spent * 100, budget_amount) ELSE Rat(0, 1)

\* The status with the warning bound excluded.
StatusOf_StrictWarning(percentage_used, alert_threshold) ==
  IF RatLeq(Rat(100, 1), percentage_used) THEN "exceeded"
  ELSE IF RatLt(Rat(alert_threshold[1] * 100, alert_threshold[2]), percentage_used)
       THEN "warning"
  ELSE "good"

\* status = 'good'; 'exceeded' if percentage_used >= 100; elif
\* percentage_used >= alert_threshold * 100: 'warning'
StatusOf(percentage_used, alert_threshold) ==
  IF RatLeq(Rat(100, 1), percentage_used) THEN "exceeded"
  ELSE IF RatLeq(Rat(alert_threshold[1] * 100, alert_threshold[2]), percentage_used)
       THEN "warning"
  ELSE "good"

\* The entry get_budget_status appends for one budget.
BudgetStatusEntry(category_breakdown, budget) ==
  LET spent           == Spent(category_breakdown, budget.category)
      budget_amount   == budget.amount
      percentage_used == PercentageUsed(spent, budget_amount)
  IN  [category |-> budget.category,
       budget |-> budget_amount,
       spent |-> spent,
       remaining |-> budget_amount - spent,
       percentage_used |-> percentage_used,
       status |-> StatusOf(percentage_used, AlertThreshold(budget))]

\* AnalyticsEngine.get_budget_status: the results it can return.
get_budget_status(transactions, budgets, start_date, end_date) ==
  { LET budget_status ==
          [i \in DOMAIN budgets |-> BudgetStatusEntry(category_breakdown, budgets[i])]
    IN  [budgets |-> budget_status,
         total_budgeted |-> Sum([i \in DOMAIN budgets |-> budgets[i].amount]),
         total_spent |-> Sum([i \in DOMAIN budget_status |-> budget_status[i].spent])] :
    category_breakdown \in get_category_breakdown(transactions, start_date, end_date) }

----------------------------------------------------------------------------
(* ml_engine.py: the forecast and the unusual patterns.  Amounts are exact  *)
(* numbers of cents; a value with a square root in it is kept as the       *)
(* fraction under the root.                                                *)

\* The hours of a datetime n days before d.
HoursBefore(d, n) == DateKey(d) - 24 * n

\* The listed transactions t with month_start <= t.date <= month_end, the
\* sub-window that ends offset * 30 days before end_date.
MonthTrans(listing, end_date, month_offset) ==
  SelectSeq(listing, LAMBDA t :
    /\ HoursBefore(end_date, (month_offset + 1) * 30) <= DateKey(t.date)
    /\ DateKey(t.date) <= HoursBefore(end_date, month_offset * 30))

\* A confidence base - sqrt(root).
Conf(base, root) == [base |-> base, less_root_of |-> root]

\* max(0.3, min(0.9, 1 - std_dev / avg_monthly if avg_monthly > 0 else 0.3))
\* without the lower clamp.
ForecastConfidence_NoFloor(ratio_squared, avg_positive) ==
  IF ~avg_positive THEN Conf(Rat(3, 10), Rat(0, 1))
  ELSE IF RatLeq(ratio_squared, Rat(1, 100)) THEN Conf(Rat(9, 10), Rat(0, 1))
  ELSE Conf(Rat(1, 1), ratio_squared)

\* max(0.3, min(0.9, 1 - std_dev / avg_monthly if avg_monthly > 0 else 0.3))
\* with ratio_squared = (std_dev / avg_monthly)^2: 1 - sqrt(q) >= 0.9 when
\* q <= 0.01 and <= 0.3 when q >= 0.49.
ForecastConfidence(ratio_squared, avg_positive) ==
  IF ~avg_positive THEN Conf(Rat(3, 10), Rat(0, 1))
  ELSE IF RatLeq(ratio_squared, Rat(1, 100)) THEN Conf(Rat(9, 10), Rat(0, 1))
  ELSE IF RatLeq(Rat(49, 100), ratio_squared) THEN Conf(Rat(3, 10), Rat(0, 1))
  ELSE Conf(Rat(1, 1), ratio_squared)

\* The body of MLEngine.predict_next_month_spending on the listing of the
\* last 90 days.  With S the sum of the expenses and x the monthly totals,
\* avg_monthly = S / 3, variance = sum (3x - S)^2 / 27 and
\* (std_dev / avg_monthly)^2 = sum (3x - S)^2 / (3 S^2).
Forecast(listing, end_date, category) ==
  LET transactions == IF category # None
                      THEN SelectSeq(listing, LAMBDA t : t.category = category)
                      ELSE listing
      expenses == AbsAmounts(SelectSeq(transactions, IsExpense))
      total    == Sum(expenses)
      monthly_totals ==
        [i \in 1..3 |-> Sum(AbsAmounts(MonthTrans(transactions, end_date, i - 1)))]
      squares  == Sum([i \in 1..3 |-> (3 * monthly_totals[i] - total)
                                        * (3 * monthly_totals[i] - total)])
  IN  IF expenses = << >>
      THEN [predicted_amount |-> Rat(0, 1), confidence |-> Conf(Rat(0, 1), Rat(0, 1)),
            method |-> "no_data"]
      ELSE [predicted_amount |-> Rat(total, 3),
            confidence |-> ForecastConfidence(
                             IF total > 0 THEN Rat(squares, 3 * total * total)
                             ELSE Rat(0, 1),
                             total > 0),
            historical_average |-> Rat(total, 3),
            min |-> Min(Range(expenses)),
            max |-> Max(Range(expenses)),
            std_dev |-> Conf(Rat(0, 1), Rat(squares, 27)),
            monthly_breakdown |-> monthly_totals,
            method |-> "moving_average"]

\* MLEngine.predict_next_month_spending with datetime.now() = now: the
\* results it can return.
predict_next_month_spending(transactions, now, category) ==
  {Forecast(listing, now, category) :
     listing \in Repo_get_by_date_range(transactions, DaysBefore(now, 90), now)}

\* The category totals of the expenses of a listing, by category value, and
\* the categories in the order they are first met.
SpendingKeys(listing) ==
  LET expenses == SelectSeq(listing, IsExpense)
  IN  KeysInOrder([i \in DOMAIN expenses |-> expenses[i].category])

SpendingOf(listing, category) ==
  Sum(AbsAmounts(SelectSeq(listing, LAMBDA t : IsExpense(t) /\ t.category = category)))

\* round(x, 2) of the fraction num / den >= 0, in hundredths: the nearest
\* whole number of hundredths; when the fraction lies half-way the float
\* that stands for it decides, so both neighbours are kept.
RoundedHundredths(num, den) ==
  LET scaled == num * 100
      low    == scaled \div den
  IN  IF 2 * (scaled % den) < den THEN {low}
      ELSE IF 2 * (scaled % den) > den THEN {low + 1}
      ELSE {low, low + 1}

\* The spike test with the bound included.
IsSpike_Inclusive(current, previous) ==
  previous > 0 /\ (current - previous) * 100 >= 50 * previous

\* prev_spending[category] > 0 and increase_pct > 50
IsSpike(current, previous) ==
  previous > 0 /\ (current - previous) * 100 > 50 * previous

\* The pattern of a category whose spending rose: increase_percentage in
\* hundredths.
Spike(category, current, previous, increase_hundredths) ==
  [type |-> "category_spike", category |-> category,
   increase_percentage |-> increase_hundredths,
   previous_amount |-> previous, current_amount |-> current,
   severity |-> IF current - previous > previous THEN "high" ELSE "medium"]

\* The body of MLEngine.detect_unusual_patterns on the listings of the last
\* 30 days and of the 30 days before them.
UnusualPatterns(recent_trans, prev_trans) ==
  LET keys    == SpendingKeys(recent_trans)
      current(k)  == SpendingOf(recent_trans, k)
      previous(k) == SpendingOf(prev_trans, k)
      spikes  == SelectSeq(keys, LAMBDA k : IsSpike(current(k), previous(k)))
  IN  {patterns \in [DOMAIN spikes -> UNION {
                       {Spike(k, current(k), previous(k), h) :
                          h \in RoundedHundredths((current(k) - previous(k)) * 100,
                                                  previous(k))} : k \in Range(spikes)}] :
         \A i \in DOMAIN spikes : patterns[i].category = spikes[i]}

\* MLEngine.detect_unusual_patterns with datetime.now() = now: the results
\* it can return.
detect_unusual_patterns(transactions, now) ==
  UNION {UnusualPatterns(recent_trans, prev_trans) :
           recent_trans \in Repo_get_by_date_range(transactions, DaysBefore(now, 30), now),
           prev_trans \in Repo_get_by_date_range(transactions, DaysBefore(now, 60),
                                                 DaysBefore(now, 30))}

----------------------------------------------------------------------------
(* repositories.py and services.py: budgets.  A row holds the columns the  *)
(* calls decide on; start_date, end_date, created_at and updated_at take   *)
(* part in none of them.                                                   *)

\* Budget(category=..., amount=..., period=...): alert_threshold keeps its
\* default 0.8.
Budget(id, category, amount, period) ==
  [id |-> id, category |-> category, amount |-> amount, period |-> period,
   alert_threshold |-> Rat(8, 10)]

\* BudgetRepository.create: INSERT, the new row getting the next id.
BudgetRepo_create(rows, next_id, budget) ==
  [budgets |-> rows \cup {[budget EXCEPT !.id = next_id]},
   nextBudgetId |-> next_id + 1, id |-> next_id]

\* FinanceService.create_budget: the new table and the budget returned.
create_budget(rows, next_id, category, amount, period) ==
  LET created == BudgetRepo_create(rows, next_id, Budget(None, category, amount, period))
  IN  [budgets |-> created.budgets, nextBudgetId |-> created.nextBudgetId,
       ret |-> Budget(created.id, category, amount, period)]

\* BudgetRepository.update: UPDATE ... SET amount, period, alert_threshold
\* WHERE id = ?; the category column is not written.  True when a row
\* matched.
update_budget(rows, budget) ==
  [budgets |-> {IF b.id = budget.id
                THEN [b EXCEPT !.amount = budget.amount, !.period = budget.period,
                               !.alert_threshold = budget.alert_threshold]
                ELSE b : b \in rows},
   ret |-> \E b \in rows : b.id = budget.id]

\* BudgetRepository.delete: DELETE ... WHERE id = ?.  True when a row
\* matched.
delete_budget(rows, budget_id) ==
  [budgets |-> {b \in rows : b.id # budget_id},
   ret |-> \E b \in rows : b.id = budget_id]

----------------------------------------------------------------------------
(* Inputs of the calls *)

AddInput(day, hour, amount, merchant, category, transaction_type) ==
  [date |-> [year |-> 2024, day |-> day, hour |-> hour], amount |-> amount, merchant |-> merchant,
   category |-> category, transaction_type |-> transaction_type]

\* A row as update_transaction is given it, but for the id.
UpdateInput(day, hour, amount, merchant, category, transaction_type) ==
  [date |-> [year |-> 2024, day |-> day, hour |-> hour], amount |-> amount, merchant |-> merchant,
   category |-> category, transaction_type |-> transaction_type,
   confidence_score |-> <<1, 1>>]

AddInputs ==
  { AddInput(2, 10, -550, M_Starbucks, "Shopping", None),
    AddInput(2, 10, -550, M_Starbucks, None, None),
    AddInput(3, 0, -550, M_Fuel, None, None),
    AddInput(2, 10, 700, NoneStr, None, None),
    AddInput(2, 10, 700, NoneStr, "Shopping", None) }

UpdateInputs ==
  { UpdateInput(2, 10, -550, M_Starbucks, "Shopping", "expense"),
    UpdateInput(2, 10, -550, NoneStr, "Shopping", "expense") }

PredictInput(merchant, amount) == [merchant |-> merchant, amount |-> amount]

PredictInputs ==
  { PredictInput(M_Starbucks, -550), PredictInput(M_Amazon, -550),
    PredictInput(M_Fuel, -550), PredictInput(M_Joe, 700),
    PredictInput(M_Joe, 0), PredictInput(M_STARBUCKS, -550),
    PredictInput(NoneStr, -550), PredictInput(M_CafeMall, -550) }

Ids == 1..(MaxId + 1)

\* Inputs of the import and export specification.
\* The same input dated in another year.
InYear(year, a) == [a EXCEPT !.date.year = year]

CsvAddInputs ==
  { AddInput(5, 7, -550, M_Joe, None, "transfer"),
    AddInput(2, 10, 5, M_Fuel, "Other Income", None),
    InYear(999, AddInput(2, 0, -550, M_Amazon, "Shopping", None)) }

\* Inputs of the failing-storage specification.
\* The last one passes TransactionType.EXPENSE where a Category is expected:
\* create stores its value, which no later read converts.
FaultAddInputs ==
  { AddInput(2, 10, -550, M_Starbucks, "Shopping", None),
    AddInput(3, 0, 700, M_Joe, None, None),
    AddInput(3, 0, -550, M_Amazon, "expense", None) }

FaultUpdateInputs ==
  { UpdateInput(3, 0, -550, M_Fuel, "Transportation", "expense") }

----------------------------------------------------------------------------
(* Inputs of the analytics: ledgers, each the list of the add_transaction  *)
(* calls that fill a store, and the date ranges and clock readings of the  *)
(* queries.  All dates are in 2024.                                        *)

At(day, hour) == [year |-> 2024, day |-> day, hour |-> hour]

\* Expenses, incomes and a transfer, with types that follow the sign of the
\* amount and types that do not; the last entry is older than 30 days.
L_Mixed ==
  << AddInput(106, 9, 0, M_Fuel, "Transportation", None),
     AddInput(100, 9, -1200, M_Starbucks, "Dining & Restaurants", None),
     AddInput(101, 9, -800, M_Fuel, "Transportation", None),
     AddInput(102, 9, 50000, M_Joe, "Salary", None),
     AddInput(103, 9, 700, M_Amazon, "Shopping", "expense"),
     AddInput(104, 9, 2500, M_Joe, "Other Income", "transfer"),
     AddInput(105, 9, -2000, M_Starbucks, "Dining & Restaurants", None),
     AddInput(60, 9, -999, M_Amazon, "Shopping", None) >>

\* An income, an outlier, nine even expenses, a second outlier and one more
\* expense, a day apart.
L_Anomaly ==
  << AddInput(91, 9, 5000, M_Joe, "Salary", None),
     AddInput(92, 9, -1000, M_Amazon, "Shopping", None) >>
  \o [i \in 1..9 |-> AddInput(92 + i, 9, -100, M_Starbucks, "Dining & Restaurants", None)]
  \o << AddInput(102, 9, -900, M_Fuel, "Transportation", None),
        AddInput(102, 10, -130, M_Starbucks, "Dining & Restaurants", None) >>

\* Four 100.00 expenses 30 days apart, three expenses of about 26 with
\* gaps of 10 and 11 days, three incomes 30 days apart, and two expenses
\* 7 days apart.
L_Recurring ==
  << AddInput(10, 8, -10000, M_Amazon, "Entertainment", None),
     AddInput(80, 12, -2550, M_Fuel, "Transportation", None),
     AddInput(40, 8, -10000, M_Amazon, "Entertainment", None),
     AddInput(91, 9, -2600, M_Fuel, "Transportation", None),
     AddInput(70, 8, -10000, M_Amazon, "Entertainment", None),
     AddInput(102, 10, -2649, M_Fuel, "Transportation", None),
     AddInput(100, 8, -10000, M_Amazon, "Entertainment", None),
     AddInput(30, 7, 50000, M_Joe, "Salary", None),
     AddInput(60, 7, 50000, M_Joe, "Salary", None),
     AddInput(90, 7, 50000, M_Joe, "Salary", None),
     AddInput(3, 9, -1500, M_STARBUCKS, "Dining & Restaurants", None),
     AddInput(10, 9, -1500, M_STARBUCKS, "Dining & Restaurants", None) >>

\* Three expenses 7 days apart, three with gaps of 5 and 20 days, and three
\* with gaps of 8 and 12 days.
L_Irregular ==
  << AddInput(60, 9, -800, M_Fuel, "Transportation", None),
     AddInput(67, 9, -800, M_Fuel, "Transportation", None),
     AddInput(74, 9, -800, M_Fuel, "Transportation", None),
     AddInput(50, 9, -500, M_Starbucks, "Dining & Restaurants", None),
     AddInput(55, 9, -500, M_Starbucks, "Dining & Restaurants", None),
     AddInput(75, 9, -500, M_Starbucks, "Dining & Restaurants", None),
     AddInput(80, 9, -700, M_Joe, "Groceries", None),
     AddInput(88, 9, -700, M_Joe, "Groceries", None),
     AddInput(100, 9, -700, M_Joe, "Groceries", None) >>

\* Four expenses with gaps of 3, 3 and 4 days, the last exactly 20% above
\* their mean of 10/3, and four with gaps of 6, 6 and 8 days.
L_Boundary ==
  << AddInput(10, 9, -1999, M_Amazon, "Shopping", None),
     AddInput(13, 9, -1999, M_Amazon, "Shopping", None),
     AddInput(16, 9, -1999, M_Amazon, "Shopping", None),
     AddInput(20, 9, -1999, M_Amazon, "Shopping", None),
     AddInput(30, 9, -450, M_Starbucks, "Dining & Restaurants", None),
     AddInput(36, 9, -450, M_Starbucks, "Dining & Restaurants", None),
     AddInput(42, 9, -450, M_Starbucks, "Dining & Restaurants", None),
     AddInput(50, 9, -450, M_Starbucks, "Dining & Restaurants", None) >>

\* One merchant filed under two categories in turn: listed newest first the
\* four rows read Groceries, Shopping, Shopping, Groceries.
L_Tie ==
  << AddInput(10, 9, -1000, M_Joe, "Groceries", None),
     AddInput(20, 9, -2000, M_Joe, "Shopping", None),
     AddInput(30, 9, -3000, M_Joe, "Shopping", None),
     AddInput(40, 9, -4000, M_Joe, "Groceries", None),
     AddInput(50, 9, -500, M_Amazon, "Shopping", None),
     AddInput(60, 9, -5000, M_Joe, "Dining & Restaurants", None) >>

\* Spending that rises within the last 30 days before At(120, 12): two days
\* of 1.00 followed by seven days of 10.00, one of them in two expenses; an
\* income in the window and an expense before it.
L_Trend ==
  << AddInput(101, 9, -100, M_Starbucks, "Dining & Restaurants", None),
     AddInput(102, 9, -100, M_Starbucks, "Dining & Restaurants", None),
     AddInput(103, 9, -1000, M_Amazon, "Shopping", None),
     AddInput(104, 9, -1000, M_Amazon, "Shopping", None),
     AddInput(105, 9, -1000, M_Amazon, "Shopping", None),
     AddInput(106, 9, -1000, M_Amazon, "Shopping", None),
     AddInput(107, 9, -1000, M_Amazon, "Shopping", None),
     AddInput(108, 9, -600, M_Amazon, "Shopping", None),
     AddInput(108, 18, -400, M_Fuel, "Transportation", None),
     AddInput(50, 9, -700, M_Fuel, "Transportation", None),
     AddInput(104, 7, 50000, M_Joe, "Salary", None),
     AddInput(109, 9, -1000, M_Amazon, "Shopping", None) >>

\* Three expenses of one merchant and amount on one day, after a pair of
\* another merchant a week apart.
L_SameDay ==
  << AddInput(95, 9, -1500, M_Amazon, "Shopping", None),
     AddInput(102, 9, -1500, M_Amazon, "Shopping", None),
     AddInput(110, 9, -450, M_Starbucks, "Dining & Restaurants", None),
     AddInput(110, 13, -450, M_Starbucks, "Dining & Restaurants", None),
     AddInput(110, 18, -450, M_Starbucks, "Dining & Restaurants", None) >>

Ledgers == {L_Mixed, L_Anomaly, L_Recurring, L_Irregular, L_Boundary, L_Tie, L_Trend,
            L_SameDay}

\* The threshold argument of find_anomalies: the default 2.0, 3.0 and 0.5.
Thresholds == {<<2, 1>>, <<3, 1>>, <<1, 2>>}

\* datetime.now() at the time of a query.
Nows == {At(120, 12)}

\* The days parameter of detect_spending_trends.
TrendDays == {30, 14}

DateRange(start_date, end_date) == [start_date |-> start_date, end_date |-> end_date]

DateRanges ==
  { DateRange(DaysBefore(At(120, 12), 30), At(120, 12)),
    DateRange(At(1, 0), At(366, 23)),
    DateRange(At(200, 0), At(210, 0)) }

\* Budget lists: budgets with and without an alert_threshold, one of amount
\* 0 and one of a category nothing is spent in; and no budget at all.
BudgetLists ==
  { << BudgetDictWith("Entertainment", 40000, Rat(8, 10)),
       BudgetDict("Transportation", 3000),
       BudgetDictWith("Groceries", 0, Rat(8, 10)),
       BudgetDictWith("Dining & Restaurants", 3000, Rat(1, 2)),
       BudgetDict("Travel", 5000) >>,
    << BudgetDictWith("Transportation", 3000, Rat(9, 10)),
       BudgetDict("Shopping", 999) >>,
    << >> }

\* The budgets the budget calls are made with.
MaxBudgetId == 3

BudgetCategories == {"Groceries", "Shopping"}

BudgetAmounts == {0, 3000}

BudgetPeriods == {<<"m","o","n","t","h","l","y">>, <<"w","e","e","k","l","y">>}

BudgetIds == 1..(MaxBudgetId + 1)

\* add_transaction calls on a store the analytics are then asked about.
AnalyticsAddInputs ==
  { AddInput(110, 9, -300, M_Fuel, "Transportation", None),
    AddInput(111, 9, 4000, M_Joe, "Freelance", None),
    AddInput(112, 9, 0, M_Joe, None, None),
    AddInput(113, 9, 900, M_Fuel, None, "expense"),
    AddInput(114, 9, -900, M_Joe, "Salary", "income"),
    AddInput(115, 9, -1299, M_Amazon, None, None) }

----------------------------------------------------------------------------
(* The state machine: one service instance and its single client *)

VARIABLES
  transactions,      \* the rows of the transactions table
  nextId,            \* the id AUTOINCREMENT gives the next row
  merchant_history,  \* MLEngine.merchant_history
  lastOp,            \* the call that ended last
  lastArgs,          \* its arguments
  lastExc,           \* the exception it raised to the caller, or None
  lastRet,           \* the value it returned
  budgets,           \* the rows of the budgets table
  nextBudgetId       \* the id AUTOINCREMENT gives the next budget

vars == <<transactions, nextId, merchant_history, lastOp, lastArgs, lastExc, lastRet,
          budgets, nextBudgetId>>

Svc == [transactions |-> transactions, nextId |-> nextId,
        merchant_history |-> merchant_history]

\* FinanceService.__init__ on a fresh database: trained on the empty table.
Init ==
  /\ transactions = {}
  /\ nextId = 1
  /\ merchant_history \in TrainedHistories({})
  /\ lastOp = "init"
  /\ lastArgs = None
  /\ lastExc = None
  /\ lastRet = None
  /\ budgets = {}
  /\ nextBudgetId = 1

Done(o, op, args) ==
  /\ transactions' = o.svc.transactions
  /\ nextId' = o.svc.nextId
  /\ merchant_history' = o.svc.merchant_history
  /\ lastOp' = op
  /\ lastArgs' = args
  /\ lastExc' = o.exc
  /\ lastRet' = o.ret
  /\ UNCHANGED <<budgets, nextBudgetId>>

AddTransaction(inputs, faults) ==
  /\ nextId <= MaxId
  /\ \E a \in inputs :
       \E o \in add_transaction(Svc, a.date, a.amount, a.merchant, a.category,
                                a.transaction_type, faults) :
         Done(o, "add_transaction", a)

GetTransactionById ==
  \E id \in Ids :
    \E o \in get_transaction_by_id(Svc, id) :
      Done(o, "get_transaction_by_id", [id |-> id])

UpdateTransaction(inputs, faults) ==
  \E id \in Ids, u \in inputs :
    LET t == [id |-> id, date |-> u.date, amount |-> u.amount, merchant |-> u.merchant,
              category |-> u.category, transaction_type |-> u.transaction_type,
              confidence_score |-> u.confidence_score]
    IN  \E o \in update_transaction(Svc, t, faults) :
          Done(o, "update_transaction", t)

DeleteTransaction(faults) ==
  \E id \in Ids :
    \E o \in delete_transaction(Svc, id, faults) :
      Done(o, "delete_transaction", [id |-> id])

\* A direct call of MLEngine.predict_category.
MLPredictCategory ==
  \E a \in PredictInputs :
    LET r == MLEngine_predict_category(merchant_history, a.merchant, a.amount)
    IN  Done(Outcome(Svc, r.exc, r.val), "ml_predict_category", a)

PredictCategory ==
  \E a \in PredictInputs :
    LET r == FinanceService_predict_category(Svc, a.merchant, a.amount)
    IN  Done(Outcome(Svc, r.exc, r.val), "predict_category", a)

ImportFromCsv ==
  \E kinds \in CsvInputs :
    \E o \in import_from_csv(Svc, CsvText(kinds)) :
      /\ o.svc.nextId <= MaxId + 1
      /\ Done(o, "import_from_csv", kinds)

ExportToCsv ==
  \E o \in export_to_csv(Svc) :
    Done(o, "export_to_csv", None)

\* Transactions and classifier over a storage that does not fail.
Next ==
  \/ AddTransaction(AddInputs, FALSE)
  \/ GetTransactionById
  \/ UpdateTransaction(UpdateInputs, FALSE)
  \/ DeleteTransaction(FALSE)
  \/ MLPredictCategory
  \/ PredictCategory

Spec == Init /\ [][Next]_vars

\* Import and export, with writes that fill the table.
NextCsv ==
  \/ AddTransaction(CsvAddInputs, FALSE)
  \/ DeleteTransaction(FALSE)
  \/ ImportFromCsv
  \/ ExportToCsv

SpecCsv == Init /\ [][NextCsv]_vars

\* The writes over a storage whose calls may fail (I/O error, locked
\* database): sqlite3.OperationalError out of a repository call.
NextFault ==
  \/ AddTransaction(FaultAddInputs, TRUE)
  \/ UpdateTransaction(FaultUpdateInputs, TRUE)
  \/ DeleteTransaction(TRUE)

SpecFault == Init /\ [][NextFault]_vars

RECURSIVE Loaded(_, _)
\* The service states after the first k add_transaction calls of a ledger on
\* an empty store.
Loaded(ledger, k) ==
  IF k = 0
  THEN {[transactions |-> {}, nextId |-> 1, merchant_history |-> h] :
          h \in TrainedHistories({})}
  ELSE UNION {{o.svc : o \in {x \in add_transaction(svc, ledger[k].date, ledger[k].amount,
                                                    ledger[k].merchant, ledger[k].category,
                                                    ledger[k].transaction_type, FALSE) :
                                x.exc = None}} :
                svc \in Loaded(ledger, k - 1)}

\* A service constructed over a database that earlier add_transaction calls
\* filled; __init__ trains the classifier from it.
InitAnalytics ==
  /\ \E ledger \in Ledgers : \E k \in 0..Len(ledger) : \E svc \in Loaded(ledger, k) :
       /\ transactions = svc.transactions
       /\ nextId = svc.nextId
       /\ merchant_history \in TrainedHistories(svc.transactions)
  /\ lastOp = "init"
  /\ lastArgs = None
  /\ lastExc = None
  /\ lastRet = None
  /\ budgets = {}
  /\ nextBudgetId = 1

GetSummary ==
  \E r \in DateRanges :
    \E ret \in get_summary(transactions, r.start_date, r.end_date) :
      Done(Outcome(Svc, None, ret), "get_summary", r)

GetCategoryBreakdown ==
  \E r \in DateRanges :
    \E ret \in get_category_breakdown(transactions, r.start_date, r.end_date) :
      Done(Outcome(Svc, None, ret), "get_category_breakdown", r)

FindAnomalies ==
  \E threshold \in Thresholds :
    \E ret \in find_anomalies(transactions, threshold) :
      Done(Outcome(Svc, None, ret), "find_anomalies", [threshold |-> threshold])

PredictRecurringTransactions ==
  \E r \in predict_recurring_transactions(transactions) :
    Done(Outcome(Svc, r.exc, r.val), "predict_recurring_transactions", None)

DetectSpendingTrends ==
  \E now \in Nows, days \in TrendDays :
    \E ret \in detect_spending_trends(transactions, now, days) :
      Done(Outcome(Svc, None, ret), "detect_spending_trends",
           [now |-> now, days |-> days])

GetBudgetStatus ==
  \E budget_dicts \in BudgetLists, r \in DateRanges :
    \E ret \in get_budget_status(transactions, budget_dicts, r.start_date, r.end_date) :
      Done(Outcome(Svc, None, ret), "get_budget_status",
           [budgets |-> budget_dicts, start_date |-> r.start_date, end_date |-> r.end_date])

\* The analytics over stores of every size the ledgers give.
NextAnalytics ==
  \/ AddTransaction(AnalyticsAddInputs, FALSE)
  \/ GetSummary
  \/ GetCategoryBreakdown
  \/ FindAnomalies
  \/ PredictRecurringTransactions
  \/ GetBudgetStatus
  \/ DetectSpendingTrends

SpecAnalytics == InitAnalytics /\ [][NextAnalytics]_vars

(* The insights: the forecast and the unusual patterns over small ledgers, *)
(* with now = day 120, 12:00, so that the windows meet at day 90, 12:00    *)
(* and day 60, 12:00.                                                      *)

\* Three even months.
LI_Even ==
  << AddInput(40, 9, -90, M_Amazon, "Shopping", None),
     AddInput(70, 9, -90, M_Amazon, "Shopping", None),
     AddInput(100, 9, -90, M_Amazon, "Shopping", None) >>

\* Three months that differ a little.
LI_Mid ==
  << AddInput(100, 9, -100, M_Amazon, "Shopping", None),
     AddInput(70, 9, -80, M_Amazon, "Shopping", None),
     AddInput(40, 9, -120, M_Amazon, "Shopping", None) >>

\* Rises of exactly 50%, of 53.125%, of 150%, and a category without a past.
LI_Spike ==
  << AddInput(70, 9, -60, M_Amazon, "Shopping", None),
     AddInput(100, 9, -60, M_Amazon, "Shopping", None),
     AddInput(105, 9, -30, M_Amazon, "Shopping", None),
     AddInput(80, 9, -32, M_Fuel, "Transportation", None),
     AddInput(101, 9, -49, M_Fuel, "Transportation", None),
     AddInput(75, 9, -40, M_Starbucks, "Dining & Restaurants", None),
     AddInput(110, 9, -100, M_Starbucks, "Dining & Restaurants", None),
     AddInput(111, 9, -50, M_Joe, "Entertainment", None) >>

\* Rows dated exactly where two windows meet.
LI_Boundary ==
  << AddInput(90, 12, -40, M_Amazon, "Shopping", None),
     AddInput(100, 9, -70, M_Amazon, "Shopping", None),
     AddInput(60, 12, -20, M_Fuel, "Transportation", None),
     AddInput(95, 9, -20, M_Fuel, "Transportation", None) >>

\* Income and a transfer next to the expenses.
LI_Income ==
  << AddInput(95, 9, -50, M_Amazon, "Shopping", None),
     AddInput(100, 9, 100, M_Joe, "Salary", None),
     AddInput(70, 9, -30, M_Joe, "Other Expense", "transfer"),
     AddInput(65, 9, -45, M_Amazon, "Shopping", None) >>

\* No expense in the last 90 days, then expenses of nothing.
LI_Zero ==
  << AddInput(100, 9, 100, M_Joe, "Salary", None),
     AddInput(20, 9, -80, M_Amazon, "Shopping", None),
     AddInput(100, 9, 0, M_Amazon, "Shopping", None),
     AddInput(70, 9, 0, M_Amazon, "Shopping", None) >>

InsightLedgers == {LI_Even, LI_Mid, LI_Spike, LI_Boundary, LI_Income, LI_Zero}

InsightAddInputs ==
  { AddInput(116, 9, -20, M_Amazon, "Shopping", None),
    AddInput(90, 12, -10, M_Fuel, "Transportation", None),
    AddInput(85, 9, 60, M_Joe, "Salary", None) }

\* The category argument of the forecast.
ForecastCategories == {None, "Shopping"}

InitInsights ==
  /\ \E ledger \in InsightLedgers : \E k \in 0..Len(ledger) : \E svc \in Loaded(ledger, k) :
       /\ transactions = svc.transactions
       /\ nextId = svc.nextId
       /\ merchant_history \in TrainedHistories(svc.transactions)
  /\ lastOp = "init"
  /\ lastArgs = None
  /\ lastExc = None
  /\ lastRet = None
  /\ budgets = {}
  /\ nextBudgetId = 1

PredictNextMonthSpending ==
  \E now \in Nows, category \in ForecastCategories :
    \E ret \in predict_next_month_spending(transactions, now, category) :
      Done(Outcome(Svc, None, ret), "predict_next_month_spending",
           [now |-> now, category |-> category])

DetectUnusualPatterns ==
  \E now \in Nows :
    \E ret \in detect_unusual_patterns(transactions, now) :
      Done(Outcome(Svc, None, ret), "detect_unusual_patterns", [now |-> now])

NextInsights ==
  \/ AddTransaction(InsightAddInputs, FALSE)
  \/ PredictNextMonthSpending
  \/ DetectUnusualPatterns

SpecInsights == InitInsights /\ [][NextInsights]_vars

\* The end of a budget call.
BudgetDone(rows, next_id, op, args, ret) ==
  /\ budgets' = rows
  /\ nextBudgetId' = next_id
  /\ lastOp' = op
  /\ lastArgs' = args
  /\ lastExc' = None
  /\ lastRet' = ret
  /\ UNCHANGED <<transactions, nextId, merchant_history>>

CreateBudget ==
  /\ nextBudgetId <= MaxBudgetId
  /\ \E category \in BudgetCategories, amount \in BudgetAmounts, period \in BudgetPeriods :
       LET o == create_budget(budgets, nextBudgetId, category, amount, period)
       IN  BudgetDone(o.budgets, o.nextBudgetId, "create_budget",
                      [category |-> category, amount |-> amount, period |-> period], o.ret)

UpdateBudget ==
  \E id \in BudgetIds, category \in BudgetCategories, amount \in BudgetAmounts,
     period \in BudgetPeriods :
    LET budget == Budget(id, category, amount, period)
        o      == update_budget(budgets, budget)
    IN  BudgetDone(o.budgets, nextBudgetId, "update_budget", budget, o.ret)

DeleteBudget ==
  \E id \in BudgetIds :
    LET o == delete_budget(budgets, id)
    IN  BudgetDone(o.budgets, nextBudgetId, "delete_budget", [id |-> id], o.ret)

NextBudget ==
  \/ CreateBudget
  \/ UpdateBudget
  \/ DeleteBudget

SpecBudget == Init /\ [][NextBudget]_vars

----------------------------------------------------------------------------
(* Properties of the transaction operations and of the classifier *)

StoredMerchants == {t.merchant : t \in transactions}

CategoryCount(merchant, category) ==
  Cardinality({t \in transactions : t.merchant = merchant /\ t.category = category})

\* C1: after every add_transaction, update_transaction and
\* delete_transaction call, whatever it returned, the keys of
\* merchant_history are exactly the merchants of the stored transactions and
\* each merchant is mapped to a category no other category outnumbers among
\* that merchant's stored transactions.
C1_HistoryConsistent ==
  /\ DOMAIN merchant_history = StoredMerchants
  /\ \A m \in StoredMerchants : \A c \in Category :
       CategoryCount(m, c) <= CategoryCount(m, merchant_history[m])

\* An update has just left a merchant with two transactions of one category
\* and one of another.
C1_Witness ==
  /\ lastOp = "update_transaction" /\ lastExc = None /\ lastRet = TRUE
  /\ \E m \in StoredMerchants : \E c \in Category :
       /\ CategoryCount(m, merchant_history[m]) = 2
       /\ CategoryCount(m, c) = 1

\* The first rule, in table order, whose keyword occurs in the lower-cased
\* merchant: 0 when no rule matches.
FirstRule(merchant) ==
  LET hit(i) == Contains(RULES[i].keyword, Lower(merchant))
  IN  IF \E i \in DOMAIN RULES : hit(i)
      THEN CHOOSE i \in DOMAIN RULES : hit(i) /\ \A j \in 1..(i - 1) : ~hit(j)
      ELSE 0

\* C2: FinanceService.predict_category answers a merchant that contains a
\* rule-table keyword with that rule's category and confidence 0.95, whatever
\* merchant_history and the keyword scores say.
C2_RulePriority ==
  (lastOp = "predict_category" /\ lastArgs.merchant # NoneStr
     /\ FirstRule(lastArgs.merchant) # 0)
  => /\ lastExc = None
     /\ lastRet.category = RULES[FirstRule(lastArgs.merchant)].category
     /\ RatEq(lastRet.confidence, <<95, 100>>)

\* "Starbucks Downtown" has the history Shopping and is predicted Dining.
C2_Witness ==
  /\ lastOp = "predict_category" /\ lastArgs.merchant = M_Starbucks
  /\ M_Starbucks \in DOMAIN merchant_history
  /\ merchant_history[M_Starbucks] = "Shopping"
  /\ lastExc = None
  /\ lastRet.category = "Dining & Restaurants"

\* The number of keywords of the i-th entry of the keyword map that occur in
\* the lower-cased merchant.
Matched(i, merchant) ==
  Cardinality({j \in DOMAIN category_keywords[i].keywords :
                 Contains(category_keywords[i].keywords[j], Lower(merchant))})

\* C3: MLEngine.predict_category answers in a cascade.  A merchant that is,
\* exactly as written, a key of merchant_history gets that category with
\* confidence 0.95 even when keywords match; otherwise a merchant matching
\* keywords gets a category with the highest number of matching keywords,
\* with confidence min(that number / 3, 1); otherwise the answer is Other
\* Income for amount > 0 and Other Expense for amount <= 0, with confidence
\* 0.3.
C3_Cascade ==
  (lastOp = "ml_predict_category" /\ lastArgs.merchant # NoneStr)
  => LET m == lastArgs.merchant
         K == DOMAIN category_keywords
     IN  /\ lastExc = None
         /\ IF m \in DOMAIN merchant_history
            THEN /\ lastRet.category = merchant_history[m]
                 /\ RatEq(lastRet.confidence, <<95, 100>>)
            ELSE IF \E i \in K : Matched(i, m) > 0
            THEN \E i \in K :
                   /\ lastRet.category = category_keywords[i].category
                   /\ Matched(i, m) > 0
                   /\ \A j \in K : Matched(j, m) <= Matched(i, m)
                   /\ RatEq(lastRet.confidence,
                            IF Matched(i, m) >= 3 THEN <<1, 1>> ELSE <<Matched(i, m), 3>>)
            ELSE /\ lastRet.category = IF lastArgs.amount > 0 THEN "Other Income"
                                       ELSE "Other Expense"
                 /\ RatEq(lastRet.confidence, <<3, 10>>)

\* A merchant with matching keywords and a different history gets the history.
C3_Witness ==
  /\ lastOp = "ml_predict_category" /\ lastArgs.merchant = M_Starbucks
  /\ M_Starbucks \in DOMAIN merchant_history
  /\ merchant_history[M_Starbucks] = "Shopping"
  /\ \E i \in DOMAIN category_keywords : Matched(i, M_Starbucks) > 0
  /\ lastExc = None
  /\ lastRet.category = "Shopping"

InUnitInterval(c) == RatLeq(<<0, 1>>, c) /\ RatLeq(c, <<1, 1>>)

\* C4: every confidence MLEngine.predict_category and
\* FinanceService.predict_category return, and every confidence_score
\* add_transaction stores, lies between 0 and 1 inclusive.
C4_ConfidenceInUnit ==
  /\ (lastOp \in {"ml_predict_category", "predict_category"} /\ lastExc = None)
       => InUnitInterval(lastRet.confidence)
  /\ (lastOp = "add_transaction" /\ lastExc = None)
       => /\ lastRet \in transactions
          /\ InUnitInterval(lastRet.confidence_score)

\* An added transaction whose merchant matches four keywords of a category
\* is stored with the capped confidence 1.0.
C4_Witness ==
  /\ lastOp = "add_transaction" /\ lastExc = None
  /\ lastArgs.category = None /\ lastArgs.merchant = M_Fuel
  /\ CountOf(KeywordScores(M_Fuel), lastRet.category) > 3
  /\ RatEq(lastRet.confidence_score, <<1, 1>>)

\* C5: when the category prediction raises while add_transaction creates a
\* transaction without a category, the call does not raise and the
\* transaction is created with Other Expense and confidence 0.
C5_PredictionFailureAbsorbed ==
  (/\ lastOp = "add_transaction" /\ lastArgs.category = None
   /\ MLEngine_predict_category(merchant_history, lastArgs.merchant,
                                lastArgs.amount).exc # None)
  => /\ lastExc = None
     /\ lastRet \in transactions
     /\ lastRet.category = "Other Expense"
     /\ RatEq(lastRet.confidence_score, <<0, 1>>)

\* C7: update_transaction, delete_transaction and get_transaction_by_id on
\* an id that is not in the table return False, False and None, do not
\* raise, and leave the table and merchant_history as they were.
C7_NotFoundIsAValue ==
  [][ (/\ lastOp' \in {"update_transaction", "delete_transaction",
                       "get_transaction_by_id"}
       /\ lastArgs'.id \notin RowIds(transactions))
      => /\ lastExc' = None
         /\ lastRet' = IF lastOp' = "get_transaction_by_id" THEN NoRow ELSE FALSE
         /\ transactions' = transactions
         /\ merchant_history' = merchant_history ]_vars

\* An update of an id that is not in a non-empty table has returned False.
C7_Witness ==
  /\ lastOp = "update_transaction" /\ lastArgs.id \notin RowIds(transactions)
  /\ lastArgs.merchant # NoneStr
  /\ transactions # {}
  /\ lastExc = None /\ lastRet = FALSE

----------------------------------------------------------------------------
\* C6: every logical write (add_transaction, update_transaction,
\* delete_transaction) is all-or-nothing: whenever the call raises to the
\* caller, the transaction store holds exactly the rows it held before the
\* call.
C6_WritesAllOrNothing ==
  [][(/\ lastOp' \in {"add_transaction", "update_transaction", "delete_transaction"}
      /\ lastExc' # None)
     => transactions' = transactions]_vars

----------------------------------------------------------------------------
(* Import: the lines of an input, by kind *)

\* The data rows of an input: its lines that are not blank.
DataRows(kinds) == {i \in DOMAIN kinds : kinds[i] # "blank"}

\* The first line the reader cannot parse (past the end when there is none).
FirstUnparsable(kinds) ==
  Min({i \in DOMAIN kinds : kinds[i] = "strayCR"} \cup {Len(kinds) + 1})

Aborted(kinds) == FirstUnparsable(kinds) <= Len(kinds)

\* The data rows the reader delivers: those before the first unparsable line.
Delivered(kinds) == {i \in DataRows(kinds) : i < FirstUnparsable(kinds)}

OfKind(kinds, rows, ks) == {i \in rows : kinds[i] \in ks}

\* C8 (as stated): import_from_csv never aborts or rolls back a batch on a
\* bad row: for an input of N data rows it returns imported + failed = N
\* with at most 10 error strings, every inserted row stays committed, and
\* the store grows by exactly `imported` transactions.
C8_ImportNeverAborts ==
  [][lastOp' = "import_from_csv" =>
       /\ lastExc' = None
       /\ lastRet'.imported + lastRet'.failed = Cardinality(DataRows(lastArgs'))
       /\ Len(lastRet'.errors) <= ErrorCap
       /\ transactions \subseteq transactions'
       /\ Cardinality(transactions') = Cardinality(transactions) + lastRet'.imported]_vars

\* C8 (amended): import_from_csv never raises and never rolls back.  The
\* rows are taken in order until the input ends or the CSV reader itself
\* fails on a line; imported + failed is the number of data rows delivered
\* up to there (all N when every line parses), a reader failure adds one
\* "CSV parse error" string and leaves the rest of the input unprocessed,
\* at most 10 error strings are returned, every inserted row stays
\* committed, and the store grows by exactly `imported` transactions.
C8_ImportKeepsGoodRows ==
  [][lastOp' = "import_from_csv" =>
       LET kinds    == lastArgs'
           reported == lastRet'.failed + (IF Aborted(kinds) THEN 1 ELSE 0)
       IN  /\ lastExc' = None
           /\ lastRet'.imported + lastRet'.failed = Cardinality(Delivered(kinds))
           /\ ~Aborted(kinds) =>
                lastRet'.imported + lastRet'.failed = Cardinality(DataRows(kinds))
           /\ Len(lastRet'.errors) = Min({ErrorCap, reported})
           /\ transactions \subseteq transactions'
           /\ Cardinality(transactions') = Cardinality(transactions) + lastRet'.imported]_vars

\* A batch with a bad row between two good rows and an unparsable line
\* after them, imported into a store that already held a row.
C8_Witness ==
  /\ lastOp = "import_from_csv"
  /\ lastArgs = <<"goodNoCat", "badAmount", "goodCat", "strayCR", "goodNoCat">>
  /\ lastRet.imported = 2 /\ lastRet.failed = 1 /\ Len(lastRet.errors) = 2
  /\ Cardinality(transactions) = 3

\* C9 (as stated): a row with a malformed amount, a row with a malformed
\* date and a row whose category names no member of Category are each
\* counted in `failed` and (up to the cap) reported, and none of them stops
\* the remaining rows from being processed.
C9_EachValidationErrorCounted ==
  [][lastOp' = "import_from_csv" =>
       LET kinds == lastArgs'
           bad   == OfKind(kinds, Delivered(kinds), {"badDate", "badAmount", "unknownCat"})
           good  == OfKind(kinds, Delivered(kinds), {"goodCat", "goodNoCat"})
       IN  /\ lastRet'.failed >= Cardinality(bad)
           /\ Len(lastRet'.errors) >= Min({ErrorCap, Cardinality(bad)})
           /\ lastRet'.imported >= Cardinality(good)]_vars

\* C9 (amended): a row with a malformed amount and a row with a malformed
\* date are each counted in `failed` and (up to the cap) reported.  A row
\* whose category names no member of Category is not a failure: it is
\* imported as if it had no category, with the classifier's category and
\* confidence.  None of them stops the remaining rows from being processed.
C9_MalformedCountedUnknownClassified ==
  [][lastOp' = "import_from_csv" =>
       LET kinds     == lastArgs'
           malformed == OfKind(kinds, Delivered(kinds), {"badDate", "badAmount"})
           unknown   == OfKind(kinds, Delivered(kinds), {"unknownCat"})
           good      == OfKind(kinds, Delivered(kinds), {"goodCat", "goodNoCat"})
           predicted == MLEngine_predict_category(merchant_history, M_Starbucks, -550).val
       IN  /\ lastRet'.failed >= Cardinality(malformed)
           /\ Len(lastRet'.errors) >= Min({ErrorCap, Cardinality(malformed)})
           /\ lastRet'.imported >= Cardinality(good) + Cardinality(unknown)
           /\ unknown # {} =>
                \E t \in transactions' \ transactions :
                  /\ t.date.day = 4 /\ t.merchant = M_Starbucks
                  /\ t.category = predicted.category
                  /\ t.confidence_score = predicted.confidence]_vars

\* A batch holding a malformed date, an unknown category, a malformed amount
\* and a good row: two imported, the unknown-category row among them.
C9_Witness ==
  /\ lastOp = "import_from_csv"
  /\ lastArgs = <<"badDate", "unknownCat", "badAmount", "goodCat">>
  /\ lastRet.imported = 2 /\ lastRet.failed = 2
  /\ \E t \in transactions : t.date.day = 4 /\ t.confidence_score # <<1, 1>>

----------------------------------------------------------------------------
(* Export then import *)

PairCount(rows, merchant, amount) ==
  Cardinality({t \in rows : t.merchant = merchant /\ t.amount = amount})

\* The text is imported into an empty store with the same count, the same
\* multiset of (merchant, amount) pairs and no failed row.
RoundTrip(rows, text) ==
  \A h \in TrainedHistories({}) :
    \A o \in import_from_csv([transactions |-> {}, nextId |-> 1,
                              merchant_history |-> h], text) :
      /\ o.exc = None
      /\ o.ret.failed = 0
      /\ o.ret.imported = Cardinality(rows)
      /\ \A t \in rows \cup o.svc.transactions :
           PairCount(o.svc.transactions, t.merchant, t.amount)
             = PairCount(rows, t.merchant, t.amount)

\* C10: export then import is a round trip on count, amounts and merchants:
\* for every store content, the text of export_to_csv imported into an empty
\* store gives the same number of transactions and the same multiset of
\* (merchant, amount) pairs, with failed = 0.
C10_ExportImportRoundTrip ==
  lastOp = "export_to_csv" => RoundTrip(transactions, lastRet)

\* The round trip of the stores whose dates all have a four-digit year.
RoundTripOfFourDigitYears ==
  (lastOp = "export_to_csv" /\ \A t \in transactions : t.date.year >= 1000)
    => RoundTrip(transactions, lastRet)

\* An export of several rows, one with a merchant that needs quoting.
RoundTripExercised ==
  /\ lastOp = "export_to_csv"
  /\ Cardinality(transactions) >= 2
  /\ \E t \in transactions : t.merchant = M_Joe /\ t.amount < 0
  /\ \A t \in transactions : t.date.year >= 1000

----------------------------------------------------------------------------
(* Analytics *)

RECURSIVE SumOver(_, _)
\* The sum of the values of a function over a finite set of its arguments.
SumOver(S, value) ==
  IF S = {} THEN 0
  ELSE LET x == CHOOSE y \in S : TRUE IN value[x] + SumOver(S \ {x}, value)

\* The stored transactions dated within the range of the last call.
InRange(range) ==
  {t \in transactions : /\ DateKey(range.start_date) <= DateKey(t.date)
                        /\ DateKey(t.date) <= DateKey(range.end_date)}

AmountOf(rows) == [t \in rows |-> t.amount]

AbsAmountOf(rows) == [t \in rows |-> Abs(t.amount)]

\* C11: get_summary returns net = total_income - total_expenses, with
\* total_income the sum of the amounts of the income-type transactions of
\* the range and total_expenses the sum of the absolute amounts of its
\* expense-type transactions, and savings_rate = 0 whenever total_income = 0.
C11_SummaryNet ==
  lastOp = "get_summary" =>
    LET rows     == InRange(lastArgs)
        incomes  == {t \in rows : t.transaction_type = "income"}
        expenses == {t \in rows : t.transaction_type = "expense"}
    IN  /\ lastRet.total_income = SumOver(incomes, AmountOf(rows))
        /\ lastRet.total_expenses = SumOver(expenses, AbsAmountOf(rows))
        /\ lastRet.net = lastRet.total_income - lastRet.total_expenses
        /\ lastRet.total_income = 0 => lastRet.savings_rate[1] = 0

\* A summary over incomes, expenses and a transfer, some of them with a type
\* that does not follow the sign of the amount.
C11_Witness ==
  /\ lastOp = "get_summary"
  /\ lastRet.total_income > 0 /\ lastRet.total_expenses > 0
  /\ \E t \in InRange(lastArgs) : t.transaction_type = "transfer" /\ t.amount > 0
  /\ \E t \in InRange(lastArgs) : t.transaction_type = "expense" /\ t.amount > 0

\* C12: get_category_breakdown considers expense-type transactions only:
\* whenever total_spent > 0 the percentages sum to 100 and the category
\* totals sum to total_spent; when the range holds no expense the totals,
\* counts and percentages are empty, total_spent is 0 and top_category is
\* None.
C12_BreakdownOfExpenses ==
  lastOp = "get_category_breakdown" =>
    LET rows       == InRange(lastArgs)
        expenses   == {t \in rows : t.transaction_type = "expense"}
        categories == DOMAIN lastRet.totals
        share      == [k \in categories |-> lastRet.percentages[k][1]]
    IN  /\ lastRet.total_spent = SumOver(expenses, AbsAmountOf(rows))
        /\ categories = {t.category : t \in expenses}
        /\ \A k \in categories :
             lastRet.totals[k]
               = SumOver({t \in expenses : t.category = k}, AbsAmountOf(rows))
        /\ lastRet.total_spent > 0 =>
             /\ SumOver(categories, lastRet.totals) = lastRet.total_spent
             /\ \A k \in categories : lastRet.percentages[k][2] = lastRet.total_spent
             /\ SumOver(categories, share) = 100 * lastRet.total_spent
        /\ expenses = {} =>
             /\ lastRet.totals = << >> /\ lastRet.counts = << >>
             /\ lastRet.percentages = << >>
             /\ lastRet.total_spent = 0 /\ lastRet.top_category = None

\* A breakdown over several expense categories in a range that also holds an
\* income and a transfer.
C12_Witness ==
  /\ lastOp = "get_category_breakdown"
  /\ lastRet.total_spent > 0
  /\ Cardinality(DOMAIN lastRet.totals) >= 3
  /\ \E t \in InRange(lastArgs) : t.transaction_type = "income"
  /\ \E t \in InRange(lastArgs) : t.transaction_type = "transfer"

SquareOf(rows) == [t \in rows |-> t.amount * t.amount]

\* Whether the absolute amount of t lies more than threshold population
\* standard deviations above the mean of the absolute amounts of rows.
Outlier(t, rows, threshold) ==
  LET n == Cardinality(rows)
      S == SumOver(rows, AbsAmountOf(rows))
      Q == SumOver(rows, SquareOf(rows))
      excess == n * Abs(t.amount) - S
  IN  /\ excess > 0
      /\ excess * excess * threshold[2] * threshold[2]
           > threshold[1] * threshold[1] * (n * Q - S * S)

\* C13: find_anomalies returns the empty list whenever the store holds fewer
\* than 10 expense transactions; with 10 or more it returns exactly the
\* expense transactions whose absolute amount is strictly greater than
\* mean + threshold x population standard deviation of all expense absolute
\* amounts, ordered by absolute amount descending.
C13_Anomalies ==
  lastOp = "find_anomalies" =>
    LET expenses == {t \in transactions : t.transaction_type = "expense"}
        outliers == {t \in expenses : Outlier(t, expenses, lastArgs.threshold)}
    IN  IF Cardinality(expenses) < 10 THEN lastRet = << >>
        ELSE /\ Range(lastRet) = outliers
             /\ Len(lastRet) = Cardinality(outliers)
             /\ \A i, j \in DOMAIN lastRet :
                  i < j => Abs(lastRet[i].amount) >= Abs(lastRet[j].amount)

\* Two anomalies of different size among twelve expenses, the larger first.
C13_Witness ==
  /\ lastOp = "find_anomalies"
  /\ Cardinality({t \in transactions : t.transaction_type = "expense"}) >= 10
  /\ Len(lastRet) = 2
  /\ Abs(lastRet[1].amount) > Abs(lastRet[2].amount)

----------------------------------------------------------------------------
(* Recurring transactions *)

RECURSIVE DatesAscending(_)
\* The dates of a set of transactions as the hours of DateKey, ascending.
DatesAscending(rows) ==
  IF rows = {} THEN << >>
  ELSE LET first == CHOOSE t \in rows : \A u \in rows : DateKey(t.date) <= DateKey(u.date)
       IN  <<DateKey(first.date)>> \o DatesAscending(rows \ {first})

\* The whole-day gaps between the date-consecutive transactions of a set.
Gaps(rows) ==
  LET dates == DatesAscending(rows)
  IN  [i \in 1..(Len(dates) - 1) |-> (dates[i + 1] - dates[i]) \div 24]

\* The stored expenses a pattern stands for.
GroupOf(pattern) ==
  {t \in transactions : /\ t.transaction_type = "expense"
                        /\ t.merchant = pattern.merchant
                        /\ RoundHalfEven(Abs(t.amount), 100) = pattern.amount}

Returned == lastOp = "predict_recurring_transactions" /\ lastExc = None

\* C14: each pattern predict_recurring_transactions returns comes from a
\* (merchant, rounded amount) group of expenses with at least 3 occurrences
\* in which every day gap between date-consecutive occurrences deviates from
\* the mean gap by strictly less than 20% of the mean gap.
C14_RecurringIsRegular ==
  Returned =>
    \A p \in Range(lastRet) :
      LET gaps == Gaps(GroupOf(p))
      IN  /\ Cardinality(GroupOf(p)) >= 3
          /\ \A i \in DOMAIN gaps :
               5 * Abs(Len(gaps) * gaps[i] - Sum(gaps)) < Sum(gaps)

\* C15: a group of n >= 3 same-merchant, same-rounded-amount expenses with
\* consistent gaps is reported with frequency_days = the mean gap rounded to
\* a whole number, occurrences = n and confidence = min(n/10, 0.95), and the
\* list is ordered by confidence descending.
C15_PatternValues ==
  Returned =>
    /\ \A p \in Range(lastRet) :
         LET gaps == Gaps(GroupOf(p))
             n    == Cardinality(GroupOf(p))
         IN  /\ p.frequency_days = RoundHalfEven(Sum(gaps), Len(gaps))
             /\ p.occurrences = n
             /\ RatEq(p.confidence, IF n * 10 <= 95 THEN <<n, 10>> ELSE <<95, 100>>)
    /\ \A i, j \in DOMAIN lastRet :
         i < j => RatLeq(lastRet[j].confidence, lastRet[i].confidence)
    /\ \A t \in transactions :
         LET p     == [merchant |-> t.merchant, amount |-> RoundHalfEven(Abs(t.amount), 100)]
             gaps  == Gaps(GroupOf(p))
         IN  (/\ t.transaction_type = "expense"
              /\ Cardinality(GroupOf(p)) >= 3
              /\ \A i \in DOMAIN gaps :
                   5 * Abs(Len(gaps) * gaps[i] - Sum(gaps)) < Sum(gaps))
             => \E q \in Range(lastRet) : q.merchant = p.merchant /\ q.amount = p.amount

\* Four expenses of 100.00 thirty days apart are reported with frequency 30
\* and confidence 0.4, ahead of a group of three.
C15_Witness ==
  /\ Returned /\ Len(lastRet) = 2
  /\ lastRet[1].amount = 100 /\ lastRet[1].frequency_days = 30
  /\ lastRet[1].occurrences = 4 /\ lastRet[1].confidence = <<4, 10>>
  /\ lastRet[2].occurrences = 3

\* C20: for every recurring pattern reported, next_expected equals the date
\* of the group's last occurrence plus the mean gap rounded to a whole
\* number of days, that is last_date + frequency_days days.
C20_NextExpected ==
  Returned =>
    \A p \in Range(lastRet) :
      RatEq(p.next_expected, <<DateKey(p.last_date) + 24 * p.frequency_days, 1>>)

----------------------------------------------------------------------------
(* Budget status *)

\* What the stored expenses of a category in the range of the call add up to.
SpentIn(category) ==
  LET rows == InRange(lastArgs)
  IN  SumOver({t \in rows : t.transaction_type = "expense" /\ t.category = category},
              AbsAmountOf(rows))

\* The bound of the warning status of a budget, in percent, as a fraction.
WarningPercent(budget) ==
  IF "alert_threshold" \in DOMAIN budget
  THEN <<budget.alert_threshold[1] * 100, budget.alert_threshold[2]>>
  ELSE <<80, 1>>

\* Equality of two fractions of positive denominators.
SameFraction(a, b) ==
  IF a[2] = b[2] THEN a[1] = b[1] ELSE a[1] * b[2] = b[1] * a[2]

\* C16: get_budget_status classifies each budget from percentage_used =
\* spent / amount x 100 (0 when amount is 0, spent = 0 when the category has
\* no expense in the range): 'exceeded' when percentage_used >= 100,
\* otherwise 'warning' when percentage_used >= alert_threshold x 100 (80
\* when the budget has no alert_threshold), otherwise 'good'.
C16_BudgetStatus ==
  lastOp = "get_budget_status" =>
    /\ Len(lastRet.budgets) = Len(lastArgs.budgets)
    /\ \A i \in DOMAIN lastArgs.budgets :
         LET budget == lastArgs.budgets[i]
             entry  == lastRet.budgets[i]
             spent  == SpentIn(budget.category)
             used   == IF budget.amount = 0 THEN <<0, 1>> ELSE <<spent * 100, budget.amount>>
         IN  /\ entry.category = budget.category
             /\ entry.spent = spent
             /\ SameFraction(entry.percentage_used, used)
             /\ entry.status =
                  IF RatLeq(<<100, 1>>, used) THEN "exceeded"
                  ELSE IF RatLeq(WarningPercent(budget), used) THEN "warning"
                  ELSE "good"

\* One call reports a budget lying exactly on the default 80%, a budget of
\* amount 0 with money spent, and a budget nothing was spent on.
C16_Witness ==
  /\ lastOp = "get_budget_status"
  /\ \E i \in DOMAIN lastRet.budgets :
       /\ "alert_threshold" \notin DOMAIN lastArgs.budgets[i]
       /\ lastRet.budgets[i].spent * 100 = 80 * lastRet.budgets[i].budget
       /\ lastRet.budgets[i].status = "warning"
  /\ \E i \in DOMAIN lastRet.budgets :
       /\ lastRet.budgets[i].budget = 0 /\ lastRet.budgets[i].spent > 0
       /\ lastRet.budgets[i].status = "good"
  /\ \E i \in DOMAIN lastRet.budgets :
       lastRet.budgets[i].budget > 0 /\ lastRet.budgets[i].spent = 0

----------------------------------------------------------------------------
(* Ties of train_from_history *)

RECURSIVE NewestFirst(_)
\* The categories of a set of rows of distinct dates, latest date first.
NewestFirst(rows) ==
  IF rows = {} THEN << >>
  ELSE LET newest == CHOOSE t \in rows : \A u \in rows : DateKey(u.date) <= DateKey(t.date)
       IN  <<newest.category>> \o NewestFirst(rows \ {newest})

RowsOf(merchant) == {t \in transactions : t.merchant = merchant}

DistinctDates(rows) ==
  \A t, u \in rows : t # u => DateKey(t.date) # DateKey(u.date)

\* The categories that share the highest count of a sequence.
Tied(seq) ==
  {x \in Range(seq) : \A y \in Range(seq) : CountOf(seq, y) <= CountOf(seq, x)}

\* Where the count of x arrives at the highest count of the sequence.
ReachesMaxAt(seq, x) ==
  Min({i \in DOMAIN seq : CountOf(SubSeq(seq, 1, i), x) = CountOf(seq, x)})

\* C17: when two or more categories tie for the highest count among a
\* merchant's transactions, train_from_history stores for that merchant the
\* first category to reach the maximum count while the merchant's
\* transactions are counted in the order get_all returns them.
C17_FirstToReachMaxCount ==
  \A merchant \in DOMAIN merchant_history :
    LET seq == NewestFirst(RowsOf(merchant))
    IN  (DistinctDates(RowsOf(merchant)) /\ Cardinality(Tied(seq)) >= 2)
          => /\ merchant_history[merchant] \in Tied(seq)
             /\ \A y \in Tied(seq) :
                  ReachesMaxAt(seq, merchant_history[merchant]) <= ReachesMaxAt(seq, y)

\* C17, amended: when two or more categories tie for the highest count among
\* a merchant's transactions, train_from_history stores for that merchant
\* the tied category that occurs first in the order get_all returns the
\* transactions, that of the merchant's newest transaction among the tied
\* categories.
C17_FirstListedOfTied ==
  \A merchant \in DOMAIN merchant_history :
    LET seq == NewestFirst(RowsOf(merchant))
    IN  (DistinctDates(RowsOf(merchant)) /\ Cardinality(Tied(seq)) >= 2)
          => /\ merchant_history[merchant] \in Tied(seq)
             /\ \A y \in Tied(seq) :
                  FirstIndex(seq, merchant_history[merchant]) <= FirstIndex(seq, y)

\* A merchant whose rows read Groceries, Shopping, Shopping, Groceries,
\* newest first, is filed under Groceries although Shopping is the first to
\* reach the count of 2.
C17_Witness ==
  /\ M_Joe \in DOMAIN merchant_history
  /\ NewestFirst(RowsOf(M_Joe)) = <<"Groceries", "Shopping", "Shopping", "Groceries">>
  /\ merchant_history[M_Joe] = "Groceries"

----------------------------------------------------------------------------
(* Ties of the keyword path *)

\* The place of a category in the enumeration.
PlaceOf(category) == CHOOSE i \in DOMAIN CategoryOrder : CategoryOrder[i] = category

\* The number of keywords of a category that occur in the lower-cased
\* merchant, 0 for a category without keywords.
ScoreOf(category, merchant) ==
  LET listed == {i \in DOMAIN category_keywords : category_keywords[i].category = category}
  IN  IF listed = {} THEN 0 ELSE Matched(CHOOSE i \in listed : TRUE, merchant)

OnKeywordPath ==
  /\ lastOp = "ml_predict_category" /\ lastArgs.merchant # NoneStr
  /\ lastArgs.merchant \notin DOMAIN merchant_history
  /\ \E c \in Category : ScoreOf(c, lastArgs.merchant) > 0

\* C18: on the keyword path MLEngine.predict_category scores each category
\* by the number of its keywords that occur as substrings of the lower-cased
\* merchant, returns the category with the highest score, breaks ties in
\* favour of the category that comes first in the enumeration order of
\* categories, and returns confidence = min(score / 3, 1.0).
C18_KeywordTies ==
  OnKeywordPath =>
    LET m     == lastArgs.merchant
        score == ScoreOf(lastRet.category, m)
    IN  /\ lastExc = None
        /\ \A c \in Category : ScoreOf(c, m) <= score
        /\ \A c \in Category :
             ScoreOf(c, m) = score => PlaceOf(lastRet.category) <= PlaceOf(c)
        /\ RatEq(lastRet.confidence, IF score >= 3 THEN <<1, 1>> ELSE <<score, 3>>)

\* A merchant matching one keyword of Entertainment and one of Shopping is
\* filed under Entertainment, the earlier of the two, with confidence 1/3.
C18_Witness ==
  /\ OnKeywordPath /\ lastArgs.merchant = M_Amazon
  /\ ScoreOf("Entertainment", M_Amazon) = 1 /\ ScoreOf("Shopping", M_Amazon) = 1
  /\ lastRet.category = "Entertainment"
  /\ lastRet.confidence = <<1, 3>>

----------------------------------------------------------------------------
(* Trends *)

\* The stored expenses of the window of the call.
WindowExpenses ==
  {t \in transactions :
     /\ t.transaction_type = "expense"
     /\ DateKey(lastArgs.now) - 24 * lastArgs.days <= DateKey(t.date)
     /\ DateKey(t.date) <= DateKey(lastArgs.now)}

\* The calendar days of the window with an expense, as ordinals.
BucketDays == {ToOrdinal(t.date) : t \in WindowExpenses}

\* What was spent on a calendar day of the window.
BucketTotal ==
  [day \in BucketDays |->
     SumOver({t \in WindowExpenses : ToOrdinal(t.date) = day}, AbsAmountOf(WindowExpenses))]

\* The seven latest calendar days with an expense.
MostRecentDays ==
  {day \in BucketDays : Cardinality({later \in BucketDays : later > day}) < 7}

\* C19: when the trend window holds more than 7 calendar-day buckets of
\* expenses, detect_spending_trends computes recent_average as the mean of
\* the 7 most recent day buckets and compares it with the mean over all
\* buckets: the trend is 'stable' when the absolute relative change is below
\* 5%, otherwise 'increasing' when the recent mean is above the overall mean
\* and 'decreasing' when it is below.
C19_RecentIsLatestSevenDays ==
  (lastOp = "detect_spending_trends" /\ Cardinality(BucketDays) > 7) =>
    LET n      == Cardinality(BucketDays)
        total  == SumOver(BucketDays, BucketTotal)
        recent == SumOver(MostRecentDays, BucketTotal)
    IN  /\ RatEq(lastRet.recent_average, <<recent, 7>>)
        /\ RatEq(lastRet.average_daily_spending, <<total, n>>)
        /\ lastRet.trend =
             IF Abs(recent * n - 7 * total) * 100 < 35 * total THEN "stable"
             ELSE IF recent * n > 7 * total THEN "increasing"
             ELSE "decreasing"

----------------------------------------------------------------------------
(* Counts of the summary *)

\* C27: in get_summary, income_count equals the number of income-type
\* transactions in the range and expense_count the number of expense-type
\* transactions, for every mix of expense, income and transfer transactions.
C27_SummaryCounts ==
  lastOp = "get_summary" =>
    LET rows == InRange(lastArgs)
    IN  /\ lastRet.income_count
             = Cardinality({t \in rows : t.transaction_type = "income"})
        /\ lastRet.expense_count
             = Cardinality({t \in rows : t.transaction_type = "expense"})

----------------------------------------------------------------------------
(* Budgets that are overspent *)

\* C28: a budget is never reported as 'good' when the amount spent in its
\* category is greater than the budgeted amount, for every budget amount
\* including 0.
C28_OverspentNeverGood ==
  lastOp = "get_budget_status" =>
    \A i \in DOMAIN lastArgs.budgets :
      SpentIn(lastArgs.budgets[i].category) > lastArgs.budgets[i].amount
        => lastRet.budgets[i].status # "good"

----------------------------------------------------------------------------
(* Totality of the recurring patterns *)

\* C25: predict_recurring_transactions is total: for every store content
\* reachable through add_transaction, including three or more expenses of
\* the same merchant and rounded amount dated the same day (all gaps 0), it
\* returns a list and does not raise.
C25_RecurringIsTotal ==
  lastOp = "predict_recurring_transactions" => lastExc = None

----------------------------------------------------------------------------
(* The budget store *)

\* C21: after any sequence of create_budget, update_budget and
\* delete_budget calls the budget store holds at most one budget for any
\* (category, period) pair.
C21_OneBudgetPerCategoryAndPeriod ==
  \A b, c \in budgets :
    (b.category = c.category /\ b.period = c.period) => b = c

----------------------------------------------------------------------------
(* What add_transaction fills in *)

Added == lastOp = "add_transaction" /\ lastExc = None

\* C24: add_transaction called without a transaction_type stores type income
\* when amount > 0 and type expense otherwise (amount 0 included); when a
\* transaction_type is supplied it is stored unchanged whatever the sign of
\* the amount.
C24_TypeFromSign ==
  Added =>
    \E t \in transactions :
      /\ t.id = lastRet.id
      /\ t.transaction_type = lastRet.transaction_type
      /\ t.transaction_type =
           IF lastArgs.transaction_type # None THEN lastArgs.transaction_type
           ELSE IF lastArgs.amount > 0 THEN "income"
           ELSE "expense"

\* An amount of 0 without a type was stored as an expense beside a row whose
\* supplied type goes against the sign of its amount.
C24_Witness ==
  /\ Added /\ lastArgs.amount = 0 /\ lastArgs.transaction_type = None
  /\ lastRet.transaction_type = "expense"
  /\ \E t \in transactions :
       \/ t.amount > 0 /\ t.transaction_type = "expense"
       \/ t.amount < 0 /\ t.transaction_type = "income"

\* C26: auto-categorization on write agrees with the prediction interface:
\* for every merchant, amount and classifier state, the category
\* add_transaction stores when no category is supplied equals the category
\* FinanceService.predict_category returns for the same merchant and amount
\* in that state (so a merchant matching the rule table is stored under the
\* rule's category).
C26_WriteAgreesWithPrediction ==
  [][ (/\ lastOp' = "add_transaction" /\ lastExc' = None
       /\ lastArgs'.category = None)
      => lastRet'.category
           = FinanceService_predict_category(Svc, lastArgs'.merchant,
                                             lastArgs'.amount).val.category ]_vars


(* The windows of detect_unusual_patterns and of the forecast. *)

\* The rows the recent window and the window before it hand to
\* detect_unusual_patterns.
RecentRows(args) ==
  UNION {Range(l) : l \in Repo_get_by_date_range(transactions, DaysBefore(args.now, 30),
                                                 args.now)}

PreviousRows(args) ==
  UNION {Range(l) : l \in Repo_get_by_date_range(transactions, DaysBefore(args.now, 60),
                                                 DaysBefore(args.now, 30))}

\* C29: in detect_unusual_patterns no transaction lies in both the recent
\* window and the window before it, a transaction dated exactly where the
\* windows meet included.
C29_WindowsDisjoint ==
  lastOp = "detect_unusual_patterns" =>
    RecentRows(lastArgs) \cap PreviousRows(lastArgs) = {}

\* The rows of the 90-day window the forecast works on.
ForecastRows(args) ==
  {t \in transactions :
     /\ HoursBefore(args.now, 90) <= DateKey(t.date)
     /\ DateKey(t.date) <= DateKey(args.now)
     /\ args.category # None => t.category = args.category}

\* The sum of the absolute amounts of a set of rows.
RECURSIVE SumOfRows(_)
SumOfRows(rows) ==
  IF rows = {} THEN 0
  ELSE LET t == CHOOSE r \in rows : TRUE
       IN  Abs(t.amount) + SumOfRows(rows \ {t})

\* C30: the monthly_breakdown of predict_next_month_spending counts expenses
\* only, and each expense of the 90-day window exactly once: its three
\* totals add up to the sum of the expenses of the window.
C30_BreakdownCountsExpensesOnce ==
  (lastOp = "predict_next_month_spending" /\ lastRet.method = "moving_average") =>
    Sum(lastRet.monthly_breakdown)
      = SumOfRows({t \in ForecastRows(lastArgs) : IsExpense(t)})

\* base - sqrt(root) lies in [0.3, 0.9]: base is 0.3 .. 0.9 without a root,
\* or 1 with a root between 0.1^2 and 0.7^2.
InConfidenceRange(c) ==
  \/ /\ c.less_root_of[1] = 0
     /\ RatLeq(Rat(3, 10), c.base)
     /\ RatLeq(c.base, Rat(9, 10))
  \/ /\ c.base = Rat(1, 1)
     /\ RatLeq(Rat(1, 100), c.less_root_of)
     /\ RatLeq(c.less_root_of, Rat(49, 100))

\* C23: predict_next_month_spending returns predicted_amount 0 and method
\* 'no_data' when the last 90 days hold no expense; otherwise
\* predicted_amount is the sum of the absolute expense amounts divided by 3,
\* the method is 'moving_average' and the confidence lies in [0.3, 0.9],
\* being 0.3 when the average is 0.
C23_Forecast ==
  lastOp = "predict_next_month_spending" =>
    LET expenses == {t \in ForecastRows(lastArgs) : IsExpense(t)}
    IN  IF expenses = {}
        THEN /\ lastRet.predicted_amount[1] = 0
             /\ lastRet.method = "no_data"
        ELSE /\ lastRet.method = "moving_average"
             /\ lastRet.predicted_amount[1] * 3
                  = SumOfRows(expenses) * lastRet.predicted_amount[2]
             /\ InConfidenceRange(lastRet.confidence)
             /\ SumOfRows(expenses) = 0 =>
                  lastRet.confidence = Conf(Rat(3, 10), Rat(0, 1))

\* A forecast whose months differ so much that 1 - std_dev / avg_monthly is
\* below 0.3.
C23_Witness ==
  /\ lastOp = "predict_next_month_spending"
  /\ lastRet.method = "moving_average"
  /\ lastRet.predicted_amount[1] > 0
  /\ lastRet.confidence = Conf(Rat(3, 10), Rat(0, 1))

\* The expense total of a category among a set of rows.
ExpenseTotal(rows, category) ==
  SumOfRows({t \in rows : IsExpense(t) /\ t.category = category})

\* The patterns of a result that report a category.
Reports(category) ==
  {i \in DOMAIN lastRet : lastRet[i].category = category}

\* C22: detect_unusual_patterns reports a category exactly when its expense
\* total of the preceding 30-day window is above 0 and its total of the
\* current window is more than 50% above it; the severity is 'high' when the
\* increase is above 100% and 'medium' otherwise.  A category without
\* expense in the preceding window is never reported.
C22_CategorySpikes ==
  lastOp = "detect_unusual_patterns" =>
    \A category \in Range(CategoryOrder) :
      LET current  == ExpenseTotal(RecentRows(lastArgs), category)
          previous == ExpenseTotal(PreviousRows(lastArgs), category)
      IN  IF previous > 0 /\ 2 * current > 3 * previous
          THEN /\ Cardinality(Reports(category)) = 1
               /\ \A i \in Reports(category) :
                    /\ lastRet[i].previous_amount = previous
                    /\ lastRet[i].current_amount = current
                    /\ lastRet[i].severity
                         = IF current > 2 * previous THEN "high" ELSE "medium"
          ELSE Reports(category) = {}

\* A result that leaves out a category which rose by exactly 50% and one
\* without a past, and reports a rise of 'medium' and one of 'high'.
C22_Witness ==
  /\ lastOp = "detect_unusual_patterns"
  /\ \E category \in Range(CategoryOrder) :
       /\ ExpenseTotal(PreviousRows(lastArgs), category) > 0
       /\ 2 * ExpenseTotal(RecentRows(lastArgs), category)
            = 3 * ExpenseTotal(PreviousRows(lastArgs), category)
  /\ \E category \in Range(CategoryOrder) :
       /\ ExpenseTotal(PreviousRows(lastArgs), category) = 0
       /\ ExpenseTotal(RecentRows(lastArgs), category) > 0
  /\ \E i, j \in DOMAIN lastRet :
       lastRet[i].severity = "medium" /\ lastRet[j].severity = "high"
====
